---------------------------- MODULE Spec2Model ----------------------------
(***************************************************************************)
(* A model of the backtest engine (src/backtest_engine.py), the strategy   *)
(* base class (src/strategies/base_strategy.py) and the strategies         *)
(* (src/strategies/*.py): the loop-based TurtleStrategy,                   *)
(* PullbackBuyStrategy and ChuChiaHungStrategy, the vectorised             *)
(* SMAcrossoverStrategy and BuyAndHoldStrategy.                            *)
(*                                                                         *)
(* Six specifications share the variables:                                 *)
(*   Spec        run_backtest over the rows any strategy may supply;       *)
(*   GenSpec     generate_signals of each of the five strategies;          *)
(*   RunSpec     run_backtest on the frame a SMAcrossoverStrategy or a     *)
(*               BuyAndHoldStrategy generated;                             *)
(*   MetricsSpec get_performance_metrics on a valuation history;           *)
(*   EdgeSpec    the loop of run_backtest at the edges of its inputs;      *)
(*   BatchSpec   run_multiple_backtests over strategy objects and symbols. *)
(*                                                                         *)
(* Numbers.  The program computes in binary floating point; the model      *)
(* computes in exact rationals, kept as scaled integers:                   *)
(*   - money (capital, cost, revenue, valuation, trade value) is held in   *)
(*     units of 1/Scale, so that a commission rate of k/Scale is exact;    *)
(*   - a position_size is held in units of 1/SizeDen;                      *)
(*   - an average over a window w is held as the window's sum.             *)
(* A pandas NaN / missing value is the empty sequence <<>>, a defined      *)
(* number x is the one-element sequence <<x>>.                             *)
(***************************************************************************)
EXTENDS Integers, Sequences, FiniteSets, TLC

(***************************************************************************)
(* Bounds of the model.                                                    *)
(***************************************************************************)
MaxBars == 3

(***************************************************************************)
(* Scales of the fixed-point representation.                               *)
(***************************************************************************)
Scale == 1000
SizeDen == 2

(***************************************************************************)
(* Optional numbers: NaN and defined values.                               *)
(***************************************************************************)
NaN == << >>

Num(x) == << x >>

isna(x) == x = NaN

Val(x) == x[1]

Opt(S) == {NaN} \cup {Num(x) : x \in S}

(***************************************************************************)
(* The inputs the model draws.                                             *)
(***************************************************************************)
\* strategy.initial_capital (money units, unscaled)
InitialCapitals == {100000, 1000}

\* BacktestEngine.initial_capital (money units, unscaled)
EngineCapitals == {100000, 500000}

\* BacktestEngine.commission, in units of 1/Scale (1 is the default 0.001)
Commissions == {0, 1}

\* Close of a bar
Prices == {50, 60}

\* the 'position' column of a row of signals_data
PositionChanges == {-1, 0, 1}

\* the finite values of the 'position_size' column, in units of 1/SizeDen
\* (-7 is -3.5, 1 is 0.5, 200 is 100.0)
PositionSizes == {-7, 1, 200}

\* an infinite position_size (TurtleStrategy's 0.01 * capital / atr where atr
\* is 0): a defined value, written as the quotient 1 / 0
PosInf == << 1, 0 >>

\* Series.pct_change() fills a NaN with the last value before it ("pad") or
\* leaves it ("none"), depending on the pandas release installed
FillMethods == {"pad", "none"}

\* The rows of a symbol at the edges of the input domain: a Close of 0, and a
\* position_size of 10 shares, which at 50 and a commission of 100% cost
\* 1000.  The rows of any other symbol are Rows.
EdgeSymbol == "PENNY"

EdgeRows ==
    { [Close |-> c, position |-> p, has_position_size |-> ~isna(s), position_size |-> s] :
        c \in Opt({0, 50}), p \in Opt({-1, 1}), s \in {NaN, Num(20), PosInf} }

\* A row of signals_data as run_backtest reads it.  has_position_size is
\* ('position_size' in row); a row without the column reads NaN here.
Rows ==
    { [Close |-> c, position |-> p, has_position_size |-> h, position_size |-> s] :
        c \in Opt(Prices), p \in Opt(PositionChanges),
        h \in BOOLEAN, s \in Opt(PositionSizes) \cup {PosInf} } \
    { r \in [Close : Opt(Prices), position : Opt(PositionChanges),
             has_position_size : BOOLEAN,
             position_size : Opt(PositionSizes) \cup {PosInf}] :
        ~r.has_position_size /\ ~isna(r.position_size) }

NoRow == [Close |-> NaN, position |-> NaN, has_position_size |-> FALSE,
          position_size |-> NaN]

VARIABLES
    pc,                 \* where run_backtest is: "idle", "loop", "done", "raised"
    initial_capital,    \* strategy.initial_capital
    engine_capital,     \* BacktestEngine.initial_capital
    commission,         \* BacktestEngine.commission (units of 1/Scale)
    capital,            \* strategy.capital (units of 1/Scale)
    positions,          \* strategy.positions: NaN when symbol is no key, else <<q>>
    trades,             \* strategy.trades
    portfolio_value,    \* strategy.portfolio_value (each entry optional: NaN)
    current_position,   \* run_backtest's local current_position
    nbars,              \* len(signals_data)
    i,                  \* number of rows the loop has taken
    row,                \* the loop's current row
    pre,                \* capital, positions and current_position before row
    index,              \* signals_data.index: the timestamps of the rows
    symbol,             \* run_backtest's symbol argument
    name,               \* strategy.name
    performance,        \* the performance report run_backtest last returned
    results,            \* BacktestEngine.results: strategy name -> report
    fill_method,        \* what Series.pct_change() fills a NaN with by default
    bpc,                \* where run_multiple_backtests is: "none" when not called
    strategies,         \* its strategies argument: a list of strategy objects
    data_dict,          \* its data_dict argument: the (symbol, data) items in order
    si,                 \* number of symbols its outer loop has finished
    sj,                 \* number of strategies its inner loop has finished
    symbol_results,     \* its local symbol_results: strategy name -> result
    all_results,        \* its local all_results: symbol -> symbol_results
    objects,            \* the attributes of each strategy object it was given
    cur,                \* the strategy object run_backtest was last called with
    history,            \* the outcomes of the run_backtest calls made so far
    refs,               \* the list and dict objects that strategy.trades,
                        \* strategy.portfolio_value and the last report are
    allocated,          \* number of list and dict objects created so far
    strategy,           \* the strategy class whose generate_signals runs
    params,             \* the strategy's constructor parameters
    data,               \* generate_signals' input: the bars, oldest first
    gpc,                \* where generate_signals is: "idle", "loop", "done"
    k,                  \* number of bars generate_signals' loop has taken
    position,           \* generate_signals' local position
    entry_price,        \* generate_signals' local entry_price
    stop_loss_price,    \* generate_signals' local stop_loss_price (units of 1/atr_window)
    take_profit_price,  \* generate_signals' local take_profit_price (same units)
    signal,             \* df['signal']
    position_col,       \* df['position']
    gpre                \* the locals as they were before the bar last taken

\* the variables of run_multiple_backtests
bvars == << bpc, strategies, data_dict, si, sj, symbol_results, all_results, objects,
            cur, history >>

\* the identities of the lists and of the report
rvars == << refs, allocated >>

\* the engine's variables
evars == << pc, initial_capital, engine_capital, commission, capital, positions,
            trades, portfolio_value, current_position, nbars, i, row, pre,
            index, symbol, name, performance, results, fill_method, bvars, rvars >>

\* the variables of generate_signals
svars == << strategy, params, data, gpc, k, position, entry_price, stop_loss_price,
            take_profit_price, signal, position_col, gpre >>

vars == << evars, svars >>

\* get_portfolio_value with the holdings left out of the sum
get_portfolio_value_cash_only(cap, pos, price) == Num(cap)

(***************************************************************************)
(* BaseStrategy.get_portfolio_value({symbol: price}).  The sum ranges over *)
(* the keys of positions; quantity * NaN is NaN, also when quantity is 0.  *)
(***************************************************************************)
get_portfolio_value(cap, pos, price) ==
    IF isna(pos) THEN Num(cap)
    ELSE IF isna(price) THEN NaN
    ELSE Num(cap + Val(pos) * Val(price) * Scale)

(***************************************************************************)
(* BaseStrategy.get_performance_metrics and the report run_backtest makes  *)
(* of it.  A quotient is a pair << numerator, denominator >> in lowest     *)
(* terms with a positive denominator.  annualized_return, volatility and   *)
(* sharpe_ratio are irrational in general: each is held as the expression  *)
(* that defines it, with what decides its sign.  The valuations of the     *)
(* model are positive or NaN.                                              *)
(***************************************************************************)
RECURSIVE GCD(_, _)
GCD(a, b) == IF b = 0 THEN a ELSE GCD(b, a % b)

\* n / d in lowest terms (d > 0)
Frac(n, d) ==
    LET g == GCD(IF n < 0 THEN -n ELSE n, d)
    IN  << n \div g, d \div g >>

\* a < b for two quotients, by their continued fractions (no product is
\* formed, so that valuations of any size compare)
RECURSIVE FracLess(_, _)
FracLess(a, b) ==
    LET q1 == a[1] \div a[2]
        q2 == b[1] \div b[2]
        r1 == a[1] % a[2]
        r2 == b[1] % b[2]
    IN  IF q1 # q2 THEN q1 < q2
        ELSE IF r2 = 0 THEN FALSE
        ELSE IF r1 = 0 THEN TRUE
        ELSE FracLess(<< b[2], r2 >>, << a[2], r1 >>)

\* the series pct_change() divides: with "pad" a NaN is replaced by the last
\* defined value before it, with "none" it is left
RECURSIVE Filled(_, _, _)
Filled(pv, t, fm) ==
    IF t = 0 THEN NaN
    ELSE IF ~isna(pv[t]) \/ fm = "none" THEN pv[t]
    ELSE Filled(pv, t - 1, fm)

\* portfolio_series.pct_change() at t
pct_change(pv, t, fm) ==
    IF t = 1 \/ isna(Filled(pv, t, fm)) \/ isna(Filled(pv, t - 1, fm)) THEN NaN
    ELSE Num(Frac(Val(Filled(pv, t, fm)) - Val(Filled(pv, t - 1, fm)),
                  Val(Filled(pv, t - 1, fm))))

\* returns = portfolio_series.pct_change().dropna(), up to t
RECURSIVE Returns(_, _, _)
Returns(pv, t, fm) ==
    IF t = 0 THEN << >>
    ELSE IF isna(pct_change(pv, t, fm)) THEN Returns(pv, t - 1, fm)
    ELSE Append(Returns(pv, t - 1, fm), Val(pct_change(pv, t, fm)))

\* total_return = portfolio_series.iloc[-1] / portfolio_series.iloc[0] - 1
total_return(pv) ==
    IF isna(pv[1]) \/ isna(pv[Len(pv)]) THEN NaN
    ELSE Num(Frac(Val(pv[Len(pv)]) - Val(pv[1]), Val(pv[1])))

NaNReturn == [kind |-> "nan", growth |-> << 0, 1 >>, periods |-> 0]

\* annualized_return = (1 + total_return) ** (252 / len(portfolio_series)) - 1,
\* held as the growth factor and the number of periods
annualized_return(pv) ==
    IF isna(total_return(pv)) THEN NaNReturn
    ELSE [kind |-> "pow", growth |-> Frac(Val(pv[Len(pv)]), Val(pv[1])),
          periods |-> Len(pv)]

NaNVolatility == [kind |-> "nan", returns |-> << >>]

ZeroVolatility == [kind |-> "zero", returns |-> << >>]

\* volatility = returns.std() * sqrt(252).  Series.std() divides by
\* len(returns) - 1: it is NaN for fewer than two returns, 0 when all returns
\* are equal, otherwise positive and held as the returns it is taken of
volatility(rs) ==
    IF Len(rs) < 2 THEN NaNVolatility
    ELSE IF \A a \in 1..Len(rs) : rs[a] = rs[1] THEN ZeroVolatility
    ELSE [kind |-> "std", returns |-> rs]

ZeroSharpe == [kind |-> "zero", annualized_return |-> NaNReturn,
               volatility |-> NaNVolatility]

\* sharpe_ratio = annualized_return / volatility if volatility > 0 else 0
sharpe_ratio(ar, vol) ==
    IF vol.kind = "std"
    THEN [kind |-> "quotient", annualized_return |-> ar, volatility |-> vol]
    ELSE ZeroSharpe

\* the peak the drawdown loop holds after the first t values
RECURSIVE Peak(_, _)
Peak(pv, t) ==
    IF t <= 1 THEN pv[1]
    ELSE IF ~isna(pv[t]) /\ ~isna(Peak(pv, t - 1)) /\ Val(pv[t]) > Val(Peak(pv, t - 1))
         THEN pv[t]
         ELSE Peak(pv, t - 1)

\* the drawdown divided by the value instead of the peak
drawdown_over_value(pv, t) ==
    IF isna(Peak(pv, t)) \/ isna(pv[t]) THEN NaN
    ELSE Num(Frac(Val(Peak(pv, t)) - Val(pv[t]), Val(pv[t])))

\* the drawdown measured from the first value instead of the running peak
drawdown_from_first(pv, t) ==
    IF isna(pv[1]) \/ isna(pv[t]) THEN NaN
    ELSE Num(Frac(Val(pv[1]) - Val(pv[t]), Val(pv[1])))

\* drawdown = (peak - value) / peak at t
drawdown(pv, t) ==
    IF isna(Peak(pv, t)) \/ isna(pv[t]) THEN NaN
    ELSE Num(Frac(Val(Peak(pv, t)) - Val(pv[t]), Val(Peak(pv, t))))

\* max_drawdown after the first t values: max(max_drawdown, drawdown) keeps
\* max_drawdown unless drawdown is greater (a NaN never is)
RECURSIVE max_drawdown(_, _)
max_drawdown(pv, t) ==
    IF t = 0 THEN << 0, 1 >>
    ELSE IF ~isna(drawdown(pv, t))
            /\ FracLess(max_drawdown(pv, t - 1), Val(drawdown(pv, t)))
         THEN Val(drawdown(pv, t))
         ELSE max_drawdown(pv, t - 1)

MetricKeys == {"total_return", "annualized_return", "volatility", "sharpe_ratio",
               "max_drawdown", "total_trades"}

\* the report {}: keys is the set of keys the dict holds, a field whose key is
\* absent holds a filler
EmptyReport ==
    [keys |-> {}, total_return |-> NaN, annualized_return |-> NaNReturn,
     volatility |-> NaNVolatility, sharpe_ratio |-> ZeroSharpe,
     max_drawdown |-> << 0, 1 >>, total_trades |-> 0,
     final_capital |-> NaN, total_return_pct |-> NaN]

\* the metrics of a non-empty valuation history
Metrics(pv, tr, fm) ==
    [EmptyReport EXCEPT
        !.keys = MetricKeys,
        !.total_return = total_return(pv),
        !.annualized_return = annualized_return(pv),
        !.volatility = volatility(Returns(pv, Len(pv), fm)),
        !.sharpe_ratio = sharpe_ratio(annualized_return(pv),
                                      volatility(Returns(pv, Len(pv), fm))),
        !.max_drawdown = max_drawdown(pv, Len(pv)),
        !.total_trades = Len(tr)]

\* BaseStrategy.get_performance_metrics()
get_performance_metrics(pv, tr, fm) ==
    IF pv = << >> THEN EmptyReport ELSE Metrics(pv, tr, fm)

\* (portfolio_series.iloc[-1] / self.initial_capital - 1) * 100
total_return_pct(last, engcap) ==
    IF isna(last) THEN NaN
    ELSE LET f == Frac(Val(last) - engcap * Scale, engcap * Scale)
             g == GCD(100, f[2])
         IN  Num(<< f[1] * (100 \div g), f[2] \div g >>)

\* the performance with final_capital and total_return_pct added whatever the
\* valuation history (an empty series has no last value: NaN)
Performance_always_adds(pv, tr, engcap, fm) ==
    [get_performance_metrics(pv, tr, fm) EXCEPT
        !.keys = @ \cup {"final_capital", "total_return_pct"},
        !.final_capital = IF pv = << >> THEN NaN ELSE pv[Len(pv)],
        !.total_return_pct = IF pv = << >> THEN NaN
                             ELSE total_return_pct(pv[Len(pv)], engcap)]

\* the performance run_backtest returns: the metrics, and for a non-empty
\* valuation history final_capital and total_return_pct
Performance(pv, tr, engcap, fm) ==
    IF pv = << >> THEN get_performance_metrics(pv, tr, fm)
    ELSE [get_performance_metrics(pv, tr, fm) EXCEPT
            !.keys = @ \cup {"final_capital", "total_return_pct"},
            !.final_capital = pv[Len(pv)],
            !.total_return_pct = total_return_pct(pv[Len(pv)], engcap)]

\* the assignment keeping an entry the name already has
Store_keeps_first(res, n, perf) ==
    [m \in DOMAIN res \cup {n} |-> IF m = n /\ n \notin DOMAIN res THEN perf ELSE res[m]]

\* self.results[strategy.name] = performance
Store(res, n, perf) == [m \in DOMAIN res \cup {n} |-> IF m = n THEN perf ELSE res[m]]

\* self.results = {}
NoResults == [m \in {} |-> EmptyReport]

\* int(x) of a position_size held in units of 1/SizeDen: truncation toward 0
IntTrunc(x) == IF x >= 0 THEN x \div SizeDen ELSE -((-x) \div SizeDen)

\* int(row['position_size']) raises OverflowError: the size is infinite
SizeRaises(r) == r.has_position_size /\ r.position_size = PosInf

\* the default sizing from the strategy's initial capital instead of the
\* engine's
Shares_strategy_capital(r, engcap) ==
    IF r.has_position_size /\ ~isna(r.position_size)
    THEN IntTrunc(Val(r.position_size))
    ELSE IF Val(r.Close) > 0
         THEN initial_capital \div (10 * Val(r.Close))
         ELSE 0

(***************************************************************************)
(* The share count of a bar with a non-zero position change and a finite   *)
(* or absent position_size.                                                *)
(***************************************************************************)
Shares(r, engcap) ==
    IF r.has_position_size /\ ~isna(r.position_size)
    THEN IntTrunc(Val(r.position_size))
    ELSE IF Val(r.Close) > 0
         THEN engcap \div (10 * Val(r.Close))
         ELSE 0

\* the cost with the commission left out
EntryCost_no_commission(shares, price, comm) == shares * price * Scale

\* cost = shares * current_price * (1 + commission), in units of 1/Scale
EntryCost(shares, price, comm) == shares * price * (Scale + comm)

\* the revenue with the commission left out
ExitRevenue_no_commission(q, price, comm) == q * price * Scale

\* the revenue with the commission added instead of deducted
ExitRevenue_plus_commission(q, price, comm) == q * price * (Scale + comm)

\* revenue = current_position * current_price * (1 - commission)
ExitRevenue(q, price, comm) == q * price * (Scale - comm)

TradeRecord(ts, q, price, cap) ==
    [timestamp |-> ts, symbol |-> symbol, quantity |-> q, price |-> price,
     value |-> q * price * Scale, capital_after |-> cap]

Holdings == IF isna(positions) THEN 0 ELSE Val(positions)

Snapshot == [capital |-> capital, positions |-> positions,
             current_position |-> current_position, ntrades |-> Len(trades)]

NoLocals == [position |-> 0, entry_price |-> 0, stop_loss_price |-> 0,
             take_profit_price |-> 0]

\* BaseStrategy.__init__ created the lists self.trades and self.portfolio_value
\* (objects 1 and 2); no report exists (0)
FreshRefs ==
    /\ refs = [trades |-> 1, portfolio_value |-> 2, performance |-> 0]
    /\ allocated = 2

\* run_multiple_backtests is not called
BatchIdle ==
    /\ bpc = "none"
    /\ strategies = << >>
    /\ data_dict = << >>
    /\ si = 0
    /\ sj = 0
    /\ symbol_results = << >>
    /\ all_results = << >>
    /\ objects = << >>
    /\ cur = 0
    /\ history = << >>

\* no generate_signals is in progress: the rows come from any BaseStrategy
SignalsIdle ==
    /\ strategy = "any"
    /\ params = << >>
    /\ data = << >>
    /\ gpc = "idle"
    /\ k = 0
    /\ position = 0
    /\ entry_price = 0
    /\ stop_loss_price = 0
    /\ take_profit_price = 0
    /\ signal = << >>
    /\ position_col = << >>
    /\ gpre = NoLocals

(***************************************************************************)
(* Init: a freshly constructed engine and strategy.                        *)
(***************************************************************************)
Init ==
    /\ pc = "idle"
    /\ initial_capital \in InitialCapitals
    /\ engine_capital \in EngineCapitals
    /\ commission \in Commissions
    /\ capital = initial_capital * Scale
    /\ positions = NaN
    /\ trades = << >>
    /\ portfolio_value = << >>
    /\ current_position = 0
    /\ nbars = 0
    /\ i = 0
    /\ row = NoRow
    /\ pre = [capital |-> initial_capital * Scale, positions |-> NaN,
              current_position |-> 0, ntrades |-> 0]
    /\ index = << >>
    /\ symbol = "STOCK"
    /\ name = "Strategy"
    /\ performance = EmptyReport
    /\ results = NoResults
    /\ fill_method = "pad"
    /\ BatchIdle
    /\ FreshRefs
    /\ SignalsIdle

(***************************************************************************)
(* The indicators (pandas rolling windows over the bars).  Bars are        *)
(* numbered from 1; a rolling window of w bars ending at bar t is defined  *)
(* when t >= w and none of its w values is NaN.                            *)
(***************************************************************************)
MaxTail == 3

Bar(o, h, l, c, v) == [Open |-> o, High |-> h, Low |-> l, Close |-> c, Volume |-> v]

\* a bar with Open = High = Low = Close = p
Flat(p) == Bar(Num(p), Num(p), Num(p), Num(p), Num(100))

\* a bar with the given High, Low and Close
HLC(h, l, c) == Bar(Num(c), Num(h), Num(l), Num(c), Num(100))

\* a bar the data provider left empty
NaNBar == Bar(NaN, NaN, NaN, NaN, NaN)

Col(d, f) == [j \in 1..Len(d) |-> d[j][f]]

Abs(x) == IF x < 0 THEN -x ELSE x

SetMax(S) == CHOOSE m \in S : \A x \in S : x <= m

SetMin(S) == CHOOSE m \in S : \A x \in S : m <= x

RECURSIVE SumRange(_, _, _)
SumRange(col, a, b) == IF a > b THEN 0 ELSE Val(col[a]) + SumRange(col, a + 1, b)

RollingDefined(col, t, w) ==
    /\ w >= 1 /\ t >= w /\ t <= Len(col)
    /\ \A j \in (t - w + 1)..t : ~isna(col[j])

\* col.rolling(window=w).max() at bar t
RollingMax(col, t, w) ==
    IF RollingDefined(col, t, w)
    THEN Num(SetMax({Val(col[j]) : j \in (t - w + 1)..t}))
    ELSE NaN

\* col.rolling(window=w).min() at bar t
RollingMin(col, t, w) ==
    IF RollingDefined(col, t, w)
    THEN Num(SetMin({Val(col[j]) : j \in (t - w + 1)..t}))
    ELSE NaN

\* w times col.rolling(window=w).mean() at bar t
RollingSum(col, t, w) ==
    IF RollingDefined(col, t, w) THEN Num(SumRange(col, t - w + 1, t)) ELSE NaN

\* df['Close'].shift() at bar t
PrevClose(d, t) == IF t <= 1 THEN NaN ELSE d[t - 1].Close

\* true_range at bar t: the largest of the three ranges that are defined
\* (DataFrame.max(axis=1) skips NaN), NaN when none is
true_range(d, t) ==
    LET h == d[t].High
        l == d[t].Low
        pc0 == PrevClose(d, t)
        S == (IF isna(h) \/ isna(l) THEN {} ELSE {Val(h) - Val(l)})
             \cup (IF isna(h) \/ isna(pc0) THEN {} ELSE {Abs(Val(h) - Val(pc0))})
             \cup (IF isna(l) \/ isna(pc0) THEN {} ELSE {Abs(Val(l) - Val(pc0))})
    IN  IF S = {} THEN NaN ELSE Num(SetMax(S))

\* calculate_atr(data, window=w) at bar t, times w
calculate_atr(d, t, w) ==
    RollingSum([j \in 1..Len(d) |-> true_range(d, j)], t, w)

\* df['position_size'] = (self.initial_capital * 0.01) / df['atr'] at bar t of
\* a TurtleStrategy frame, in units of 1/SizeDen rounded down: NaN where atr
\* is, infinite where atr is 0
TurtlePositionSize(d, t, w, cap) ==
    IF isna(calculate_atr(d, t, w)) THEN NaN
    ELSE IF Val(calculate_atr(d, t, w)) = 0 THEN PosInf
    ELSE Num((SizeDen * cap * w) \div (100 * Val(calculate_atr(d, t, w))))

\* row t of the frame generate_signals returned.  TurtleStrategy adds a
\* position_size column; SMAcrossoverStrategy and BuyAndHoldStrategy add none.
DfRow(t) ==
    [Close |-> data[t].Close,
     position |-> IF strategy \in {"sma", "buyhold"} THEN position_col[t]
                  ELSE Num(position_col[t]),
     has_position_size |-> strategy = "turtle",
     position_size |-> IF strategy = "turtle"
                       THEN TurtlePositionSize(data, t, params.atr_window,
                                               initial_capital)
                       ELSE NaN]

\* the rows iterrows() can yield next: any row when the strategy is left open,
\* else the next row of the frame the strategy generated
InputRows ==
    IF strategy = "any" THEN (IF symbol = EdgeSymbol THEN EdgeRows ELSE Rows)
    ELSE IF pc = "loop" /\ i < Len(data) THEN { DfRow(i + 1) }
    ELSE { }

\* the timestamps 1..n in order
Chronological(n) == [j \in 1..n |-> j]

\* the same with the last timestamp a duplicate of the one before it
Duplicated(n) == [j \in 1..n |-> IF j = n THEN n - 1 ELSE j]

\* the same with the last two timestamps out of order
OutOfOrder(n) == [j \in 1..n |-> IF j = n THEN n - 1 ELSE IF j = n - 1 THEN n ELSE j]

\* the indexes a frame of n rows may carry: run_backtest takes the index as
\* DataFrame.iterrows() yields it
Indexes(n) ==
    IF strategy = "any" /\ n >= 2
    THEN { Chronological(n), Duplicated(n), OutOfOrder(n) }
    ELSE { Chronological(n) }

\* the reset leaving the trade log and the valuation history as they are
StartRun_keeps_log ==
    /\ pc = "idle"
    /\ strategy = "any" \/ gpc = "done"
    /\ \E n \in (IF strategy = "any" THEN 0..MaxBars ELSE { Len(data) }) :
          /\ nbars' = n
          /\ index' \in Indexes(n)
    /\ capital' = initial_capital * Scale
    /\ positions' = NaN
    /\ UNCHANGED << trades, portfolio_value >>
    /\ current_position' = 0
    /\ i' = 0
    /\ pc' = "loop"
    /\ pre' = [capital |-> initial_capital * Scale, positions |-> NaN,
               current_position |-> 0, ntrades |-> Len(trades)]
    /\ UNCHANGED << initial_capital, engine_capital, commission, row, symbol, name,
                    performance, results, fill_method, bvars, rvars >>
    /\ UNCHANGED svars

\* the reset emptying the two lists in place (list.clear()) instead of binding
\* the attributes to new lists
StartRun_clears_in_place ==
    /\ pc = "idle"
    /\ strategy = "any" \/ gpc = "done"
    /\ \E n \in (IF strategy = "any" THEN 0..MaxBars ELSE { Len(data) }) :
          /\ nbars' = n
          /\ index' \in Indexes(n)
    /\ capital' = initial_capital * Scale
    /\ positions' = NaN
    /\ trades' = << >>
    /\ portfolio_value' = << >>
    /\ current_position' = 0
    /\ i' = 0
    /\ pc' = "loop"
    /\ pre' = [capital |-> initial_capital * Scale, positions |-> NaN,
               current_position |-> 0, ntrades |-> 0]
    /\ UNCHANGED << initial_capital, engine_capital, commission, row, symbol, name,
                    performance, results, fill_method, bvars, rvars >>
    /\ UNCHANGED svars

\* run_backtest, up to the loop: generate_signals has returned, the state is
\* reset; strategy.trades = [] and strategy.portfolio_value = [] bind the
\* attributes to two new lists
StartRun ==
    /\ pc = "idle"
    /\ strategy = "any" \/ gpc = "done"
    /\ \E n \in (IF strategy = "any" THEN 0..MaxBars ELSE { Len(data) }) :
          /\ nbars' = n
          /\ index' \in Indexes(n)
    /\ capital' = initial_capital * Scale
    /\ positions' = NaN
    /\ trades' = << >>
    /\ portfolio_value' = << >>
    /\ current_position' = 0
    /\ i' = 0
    /\ pc' = "loop"
    /\ pre' = [capital |-> initial_capital * Scale, positions |-> NaN,
               current_position |-> 0, ntrades |-> 0]
    /\ refs' = [refs EXCEPT !.trades = allocated + 1, !.portfolio_value = allocated + 2]
    /\ allocated' = allocated + 2
    /\ UNCHANGED << initial_capital, engine_capital, commission, row, symbol, name,
                    performance, results, fill_method, bvars >>
    /\ UNCHANGED svars

\* what every iteration does with the row it takes
TakeRow(r) ==
    /\ pc = "loop"
    /\ i < nbars
    /\ i' = i + 1
    /\ row' = r
    /\ pre' = Snapshot
    /\ UNCHANGED << pc, initial_capital, engine_capital, commission, nbars, index,
                    symbol, name, performance, results, fill_method, bvars, rvars >>
    /\ UNCHANGED svars

AppendValuation(cap, pos, price) ==
    portfolio_value' = Append(portfolio_value, get_portfolio_value(cap, pos, price))

\* the bar is skipped: undefined price or undefined position
IsSkipped(r) == isna(r.Close) \/ isna(r.position)

\* a skipped bar that appends no valuation (a bare continue)
SkipBar_no_append ==
    \E r \in Rows :
        /\ IsSkipped(r)
        /\ TakeRow(r)
        /\ UNCHANGED << capital, positions, trades, current_position, portfolio_value >>

SkipBar ==
    \E r \in InputRows :
        /\ IsSkipped(r)
        /\ TakeRow(r)
        /\ AppendValuation(capital, positions, r.Close)
        /\ UNCHANGED << capital, positions, trades, current_position >>

\* the entry branch taken whatever the position held
IsEntry_any_position(r) == Val(r.position) > 0

IsEntry(r) == Val(r.position) > 0 /\ current_position <= 0

\* the exit branch taken whatever the position held
IsExit_any_position(r) == Val(r.position) < 0

IsExit(r) == Val(r.position) < 0 /\ current_position > 0

\* an entry that executes whether or not the cash covers the cost
EntryBar_no_cash_check ==
    \E r \in Rows :
        /\ ~IsSkipped(r)
        /\ Val(r.position) # 0
        /\ ~SizeRaises(r)
        /\ IsEntry(r)
        /\ LET shares == Shares(r, engine_capital)
               cost == EntryCost(shares, Val(r.Close), commission)
           IN  /\ shares > 0
               /\ TakeRow(r)
               /\ capital' = capital - cost
               /\ trades' = Append(trades,
                                   TradeRecord(index[i + 1], shares, Val(r.Close), capital - cost))
               /\ positions' = Num(Holdings + shares)
               /\ current_position' = shares
               /\ AppendValuation(capital - cost, Num(Holdings + shares), r.Close)

\* an entry whose cost is tested against the engine's capital
EntryBar_checks_engine_capital ==
    \E r \in InputRows :
        /\ ~IsSkipped(r)
        /\ Val(r.position) # 0
        /\ ~SizeRaises(r)
        /\ IsEntry(r)
        /\ LET shares == Shares(r, engine_capital)
               cost == EntryCost(shares, Val(r.Close), commission)
           IN  /\ shares > 0
               /\ cost <= engine_capital * Scale
               /\ TakeRow(r)
               /\ capital' = capital - cost
               /\ trades' = Append(trades,
                                   TradeRecord(index[i + 1], shares, Val(r.Close), capital - cost))
               /\ positions' = Num(Holdings + shares)
               /\ current_position' = shares
               /\ AppendValuation(capital - cost, Num(Holdings + shares), r.Close)

\* an entry that executes
EntryBar ==
    \E r \in InputRows :
        /\ ~IsSkipped(r)
        /\ Val(r.position) # 0
        /\ ~SizeRaises(r)
        /\ IsEntry(r)
        /\ LET shares == Shares(r, engine_capital)
               cost == EntryCost(shares, Val(r.Close), commission)
           IN  /\ shares > 0
               /\ cost <= capital
               /\ TakeRow(r)
               /\ capital' = capital - cost
               /\ trades' = Append(trades,
                                   TradeRecord(index[i + 1], shares, Val(r.Close), capital - cost))
               /\ positions' = Num(Holdings + shares)
               /\ current_position' = shares
               /\ AppendValuation(capital - cost, Num(Holdings + shares), r.Close)

\* an entry signal that trades nothing: no shares, or not enough cash
VetoBar ==
    \E r \in InputRows :
        /\ ~IsSkipped(r)
        /\ Val(r.position) # 0
        /\ ~SizeRaises(r)
        /\ IsEntry(r)
        /\ LET shares == Shares(r, engine_capital)
               cost == EntryCost(shares, Val(r.Close), commission)
           IN  ~(shares > 0 /\ cost <= capital)
        /\ TakeRow(r)
        /\ AppendValuation(capital, positions, r.Close)
        /\ UNCHANGED << capital, positions, trades, current_position >>

\* an exit that leaves strategy.positions[symbol] as it was
ExitBar_keeps_holdings ==
    \E r \in InputRows :
        /\ ~IsSkipped(r)
        /\ Val(r.position) # 0
        /\ ~SizeRaises(r)
        /\ ~IsEntry(r)
        /\ IsExit(r)
        /\ LET revenue == ExitRevenue(current_position, Val(r.Close), commission)
           IN  /\ TakeRow(r)
               /\ capital' = capital + revenue
               /\ trades' = Append(trades,
                                   TradeRecord(index[i + 1], -current_position, Val(r.Close),
                                               capital + revenue))
               /\ positions' = positions
               /\ current_position' = 0
               /\ AppendValuation(capital + revenue, positions, r.Close)

\* an exit
ExitBar ==
    \E r \in InputRows :
        /\ ~IsSkipped(r)
        /\ Val(r.position) # 0
        /\ ~SizeRaises(r)
        /\ ~IsEntry(r)
        /\ IsExit(r)
        /\ LET revenue == ExitRevenue(current_position, Val(r.Close), commission)
           IN  /\ TakeRow(r)
               /\ capital' = capital + revenue
               /\ trades' = Append(trades,
                                   TradeRecord(index[i + 1], -current_position, Val(r.Close),
                                               capital + revenue))
               /\ positions' = Num(0)
               /\ current_position' = 0
               /\ AppendValuation(capital + revenue, Num(0), r.Close)

\* no position change, or a signal that matches neither branch
HoldBar ==
    \E r \in InputRows :
        /\ ~IsSkipped(r)
        /\ \/ Val(r.position) = 0
           \/ (~SizeRaises(r) /\ ~IsEntry(r) /\ ~IsExit(r))
        /\ TakeRow(r)
        /\ AppendValuation(capital, positions, r.Close)
        /\ UNCHANGED << capital, positions, trades, current_position >>

\* the raising bar writing the report of the bars before it into the results
RaiseBar_stores_report ==
    \E r \in InputRows :
        /\ ~IsSkipped(r)
        /\ Val(r.position) # 0
        /\ SizeRaises(r)
        /\ pc = "loop"
        /\ i < nbars
        /\ i' = i + 1
        /\ row' = r
        /\ pre' = Snapshot
        /\ pc' = "raised"
        /\ results' = Store(results, name, Performance(portfolio_value, trades,
                                                      engine_capital, fill_method))
        /\ UNCHANGED << initial_capital, engine_capital, commission, nbars, capital,
                        positions, trades, current_position, portfolio_value,
                        index, symbol, name, performance, fill_method,
                        bvars, rvars >>
        /\ UNCHANGED svars

\* a non-zero position change on a bar whose position_size is infinite: the
\* share count is computed before the entry and exit tests, int() raises
\* OverflowError and the exception leaves run_backtest; nothing is appended
RaiseBar ==
    \E r \in InputRows :
        /\ ~IsSkipped(r)
        /\ Val(r.position) # 0
        /\ SizeRaises(r)
        /\ pc = "loop"
        /\ i < nbars
        /\ i' = i + 1
        /\ row' = r
        /\ pre' = Snapshot
        /\ pc' = "raised"
        /\ UNCHANGED << initial_capital, engine_capital, commission, nbars, capital,
                        positions, trades, current_position, portfolio_value,
                        index, symbol, name, performance, results, fill_method,
                        bvars, rvars >>
        /\ UNCHANGED svars

\* the loop is over: the performance report, a new dict, is computed and
\* stored under the strategy's name, run_backtest returns
Finish ==
    /\ pc = "loop"
    /\ i = nbars
    /\ pc' = "done"
    /\ performance' = Performance(portfolio_value, trades, engine_capital, fill_method)
    /\ results' = Store(results, name,
                        Performance(portfolio_value, trades, engine_capital, fill_method))
    /\ refs' = [refs EXCEPT !.performance = allocated + 1]
    /\ allocated' = allocated + 1
    /\ UNCHANGED << initial_capital, engine_capital, commission, capital, positions,
                    trades, portfolio_value, current_position, nbars, i, row, pre,
                    index, symbol, name, fill_method, bvars >>
    /\ UNCHANGED svars

Next ==
    StartRun \/ SkipBar \/ EntryBar \/ VetoBar \/ ExitBar \/ HoldBar \/ RaiseBar \/ Finish

Spec == Init /\ [][Next]_vars

(***************************************************************************)
(* The loop of run_backtest at the edges of its input domain: a strategy   *)
(* without cash, a Close of 0, a commission of 100%.  A valuation can be 0 *)
(* there, which the quotients of get_performance_metrics do not take, so   *)
(* the run is followed to the end of its loop.                             *)
(***************************************************************************)
EdgeInit ==
    /\ pc = "idle"
    /\ initial_capital \in {0, 1000}
    /\ engine_capital = 100000
    /\ commission \in {0, Scale}
    /\ capital = initial_capital * Scale
    /\ positions = NaN
    /\ trades = << >>
    /\ portfolio_value = << >>
    /\ current_position = 0
    /\ nbars = 0
    /\ i = 0
    /\ row = NoRow
    /\ pre = [capital |-> initial_capital * Scale, positions |-> NaN,
              current_position |-> 0, ntrades |-> 0]
    /\ index = << >>
    /\ symbol = EdgeSymbol
    /\ name = "Strategy"
    /\ performance = EmptyReport
    /\ results = NoResults
    /\ fill_method = "pad"
    /\ BatchIdle
    /\ FreshRefs
    /\ SignalsIdle

EdgeNext ==
    StartRun \/ SkipBar \/ EntryBar \/ VetoBar \/ ExitBar \/ HoldBar \/ RaiseBar

EdgeSpec == EdgeInit /\ [][EdgeNext]_vars

(***************************************************************************)
(* Properties of run_backtest.  pre holds capital, positions,              *)
(* current_position and the number of trades as they were when the loop    *)
(* took row, so a state predicate compares the two ends of an iteration.   *)
(***************************************************************************)
InRun == pc \in {"loop", "done"} /\ i >= 1

LastTrade == trades[Len(trades)]

PreHoldings == IF isna(pre.positions) THEN 0 ELSE Val(pre.positions)

NoTradeThisBar ==
    /\ Len(trades) = pre.ntrades
    /\ capital = pre.capital
    /\ positions = pre.positions
    /\ current_position = pre.current_position

\* the row asks for an entry while the engine is flat
EntrySignalWhileFlat ==
    InRun /\ ~isna(row.Close) /\ ~isna(row.position)
          /\ Val(row.position) > 0 /\ pre.current_position <= 0

\* the share count of the entry the row asks for
RowShares ==
    IF row.has_position_size /\ ~isna(row.position_size)
    THEN Val(row.position_size) \div SizeDen
    ELSE engine_capital \div (10 * Val(row.Close))

RowCost == RowShares * Val(row.Close) * (Scale + commission)

\* C1: on every bar whose Close is defined, the valuation appended for the
\* bar is the cash after the bar's trade plus the shares held after the
\* bar's trade times the bar's Close.
C1_ValuationIsCashPlusHoldings ==
    (InRun /\ ~isna(row.Close)) =>
        /\ Len(portfolio_value) = i
        /\ portfolio_value[i] = Num(capital + Holdings * Val(row.Close) * Scale)

\* C1 witness: a positive signal ignored while long, after an entry
C1_Witness ==
    /\ InRun /\ i >= 2
    /\ Len(trades) = 1 /\ pre.ntrades = 1
    /\ Holdings > 0
    /\ row.Close = Num(60) /\ row.position = Num(1)
    /\ LastTrade.price = 50

\* C2: when run_backtest returns, portfolio_value has exactly one entry per
\* input bar; during the loop it has one entry per bar taken so far.
C2_OneValuationPerBar ==
    /\ pc \in {"loop", "done"} => Len(portfolio_value) = i
    /\ pc = "done" => Len(portfolio_value) = nbars

\* C2 witness: a finished run that traded twice and last skipped a bar with
\* an undefined price
C2_Witness ==
    /\ pc = "done" /\ nbars = MaxBars
    /\ Len(trades) = 2
    /\ isna(row.Close)

\* C3 (as amended): an executed entry of s shares at price p with rate c
\* takes s*p*(1+c) from the cash, takes the holdings from 0 to s and appends
\* one trade record with quantity s, value s*p and capital_after the new
\* cash; cash 100000, p 50, c 0.001, s 100 gives cash 94995.
C3_EntryGeneral ==
    (EntrySignalWhileFlat /\ RowShares > 0 /\ RowCost <= pre.capital) =>
        /\ capital = pre.capital - RowShares * Val(row.Close) * (Scale + commission)
        /\ PreHoldings = 0
        /\ positions = Num(RowShares)
        /\ current_position = RowShares
        /\ Len(trades) = pre.ntrades + 1
        /\ LastTrade.quantity = RowShares
        /\ LastTrade.price = Val(row.Close)
        /\ LastTrade.value = RowShares * Val(row.Close) * Scale
        /\ LastTrade.capital_after = capital

C3_ExampleCase ==
    /\ EntrySignalWhileFlat
    /\ pre.capital = 100000 * Scale
    /\ row.Close = Num(50)
    /\ commission = 1
    /\ RowShares = 100

C3_EntryAmended ==
    /\ C3_EntryGeneral
    /\ C3_ExampleCase => capital = 94995 * Scale

\* C3 witness: the entry of the example has executed
C3_Witness ==
    /\ C3_ExampleCase
    /\ Len(trades) = 1
    /\ LastTrade.quantity = 100

\* C3 as stated: the same, with the example's cash given as 94950
C3_EntryAsStated ==
    /\ C3_EntryGeneral
    /\ C3_ExampleCase => capital = 94950 * Scale

\* C4: an entry signal while flat whose cost exceeds the cash records no
\* trade, leaves cash and holdings unchanged (still flat), and the bar's
\* valuation is still appended.
C4_VetoLeavesStateUnchanged ==
    (EntrySignalWhileFlat /\ RowCost > pre.capital) =>
        /\ NoTradeThisBar
        /\ Holdings = 0
        /\ current_position = 0
        /\ Len(portfolio_value) = i
        /\ portfolio_value[i] = Num(capital)

\* C4 witness: cash 1000, attempted entry cost 5000
C4_Witness ==
    /\ EntrySignalWhileFlat
    /\ pre.capital = 1000 * Scale
    /\ RowCost = 5000 * Scale
    /\ Len(portfolio_value) = i

C6_EntriesWhenFlatExitsWhenLong ==
    /\ Holdings >= 0
    /\ current_position >= 0
    /\ (InRun /\ Len(trades) > pre.ntrades) =>
          /\ Len(trades) = pre.ntrades + 1
          /\ LastTrade.quantity # 0
          /\ LastTrade.quantity > 0 => (pre.current_position <= 0 /\ PreHoldings = 0)
          /\ LastTrade.quantity < 0 => pre.current_position > 0
    /\ (InRun /\ ~isna(row.Close) /\ ~isna(row.position)
              /\ Val(row.position) > 0 /\ pre.current_position > 0) => NoTradeThisBar
    /\ (InRun /\ ~isna(row.Close) /\ ~isna(row.position)
              /\ Val(row.position) < 0 /\ pre.current_position <= 0) => NoTradeThisBar

\* C6 witness: a negative signal while flat after a round trip
C6_Witness ==
    /\ InRun /\ ~isna(row.Close)
    /\ row.position = Num(-1)
    /\ pre.current_position = 0
    /\ pre.ntrades = 2
    /\ Len(trades) = 2

(***************************************************************************)
(* TurtleStrategy                                                          *)
(***************************************************************************)
\* entry_high with the current bar inside the window (no shift)
entry_high_unshifted(d, t, n) == RollingMax(Col(d, "High"), t, n)

\* df['High'].rolling(window=entry_window).max().shift(1) at bar t
entry_high(d, t, n) == IF t <= 1 THEN NaN ELSE RollingMax(Col(d, "High"), t - 1, n)

\* exit_low with the current bar inside the window (no shift)
exit_low_unshifted(d, t, m) == RollingMin(Col(d, "Low"), t, m)

\* df['Low'].rolling(window=exit_window).min().shift(1) at bar t
exit_low(d, t, m) == IF t <= 1 THEN NaN ELSE RollingMin(Col(d, "Low"), t - 1, m)

TurtleParams ==
    { [entry_window |-> 3, exit_window |-> 10, atr_window |-> 20, stop_loss_multiplier |-> 2],
      [entry_window |-> 3, exit_window |-> 2, atr_window |-> 2, stop_loss_multiplier |-> 2],
      [entry_window |-> 3, exit_window |-> 3, atr_window |-> 4, stop_loss_multiplier |-> 1],
      [entry_window |-> 3, exit_window |-> 4, atr_window |-> 2, stop_loss_multiplier |-> 2],
      [entry_window |-> 3, exit_window |-> 2, atr_window |-> 5, stop_loss_multiplier |-> 2],
      [entry_window |-> 1, exit_window |-> 1, atr_window |-> 1, stop_loss_multiplier |-> 2] }

TurtlePrefixes == { << >>, << Flat(100), Flat(101), Flat(99) >> }

TurtleTailBars ==
    { Flat(105), Flat(101), Flat(98), NaNBar, HLC(105, 97, 99), HLC(105, 96, 99) }

\* the sequences over S of length at most n
SeqUpTo(S, n) == UNION { [1..m -> S] : m \in 0..n }

DataOf(prefixes, bars) == { pf \o tl : pf \in prefixes, tl \in SeqUpTo(bars, MaxTail) }

Locals == [position |-> position, entry_price |-> entry_price,
           stop_loss_price |-> stop_loss_price, take_profit_price |-> take_profit_price]

\* what every iteration of a generate_signals loop does
TakeBar ==
    /\ gpc = "loop"
    /\ k < Len(data)
    /\ k' = k + 1
    /\ gpre' = Locals
    /\ UNCHANGED << strategy, params, data, gpc >>
    /\ UNCHANGED evars

KeepLocals == UNCHANGED << position, entry_price, stop_loss_price, take_profit_price >>

KeepColumns == UNCHANGED << signal, position_col >>

Emit(t, v) ==
    /\ signal' = [signal EXCEPT ![t] = v]
    /\ position_col' = [position_col EXCEPT ![t] = v]

\* a required indicator of bar t is undefined
TurtleUndefined(t) ==
    \/ isna(entry_high(data, t, params.entry_window))
    \/ isna(exit_low(data, t, params.exit_window))
    \/ isna(calculate_atr(data, t, params.atr_window))

\* the entry comparison satisfied by equality too
TurtleBreakout_or_equal(close, high) == ~isna(close) /\ Val(close) >= Val(high)

\* row['Close'] > row['entry_high']
TurtleBreakout(close, high) == ~isna(close) /\ Val(close) > Val(high)

\* row['Close'] < row['exit_low'] or row['Low'] < stop_loss_price
\* (stop is held in units of 1/w)
TurtleBreakdown(close, low, lowch, stop, w) ==
    \/ ~isna(close) /\ Val(close) < Val(lowch)
    \/ ~isna(low) /\ Val(low) * w < stop

\* the entry test without the test of the position held
TurtleEntryCond_any_position(t) ==
    /\ position <= 1
    /\ TurtleBreakout(data[t].Close, entry_high(data, t, params.entry_window))

TurtleEntryCond(t) ==
    /\ position <= 0
    /\ TurtleBreakout(data[t].Close, entry_high(data, t, params.entry_window))

TurtleExitCond(t) ==
    /\ position > 0
    /\ TurtleBreakdown(data[t].Close, data[t].Low,
                       exit_low(data, t, params.exit_window),
                       stop_loss_price, params.atr_window)

\* the undefined-indicator bar resetting the locals
TurtleSkipBar_resets ==
    /\ strategy = "turtle"
    /\ TakeBar
    /\ TurtleUndefined(k + 1)
    /\ position' = 0
    /\ stop_loss_price' = 0
    /\ UNCHANGED << entry_price, take_profit_price >>
    /\ KeepColumns

TurtleSkipBar ==
    /\ strategy = "turtle"
    /\ TakeBar
    /\ TurtleUndefined(k + 1)
    /\ KeepLocals
    /\ KeepColumns

\* Close - stop_loss_multiplier * atr, in units of 1/w (atrsum is w * atr)
TurtleStop(close, mult, atrsum, w) == close * w - mult * atrsum

TurtleEnterBar ==
    /\ strategy = "turtle"
    /\ TakeBar
    /\ ~TurtleUndefined(k + 1)
    /\ TurtleEntryCond(k + 1)
    /\ Emit(k + 1, 1)
    /\ position' = 1
    /\ stop_loss_price' =
          TurtleStop(Val(data[k + 1].Close), params.stop_loss_multiplier,
                     Val(calculate_atr(data, k + 1, params.atr_window)),
                     params.atr_window)
    /\ UNCHANGED << entry_price, take_profit_price >>

TurtleExitBar ==
    /\ strategy = "turtle"
    /\ TakeBar
    /\ ~TurtleUndefined(k + 1)
    /\ ~TurtleEntryCond(k + 1)
    /\ TurtleExitCond(k + 1)
    /\ Emit(k + 1, -1)
    /\ position' = 0
    /\ stop_loss_price' = 0
    /\ UNCHANGED << entry_price, take_profit_price >>

\* a bar without transition that moves the stop up to the bar (a trailing stop)
TurtleHoldBar_trailing ==
    /\ strategy = "turtle"
    /\ TakeBar
    /\ ~TurtleUndefined(k + 1)
    /\ ~TurtleEntryCond(k + 1)
    /\ ~TurtleExitCond(k + 1)
    /\ stop_loss_price' =
          IF position > 0 /\ ~isna(data[k + 1].Close)
          THEN TurtleStop(Val(data[k + 1].Close), params.stop_loss_multiplier,
                          Val(calculate_atr(data, k + 1, params.atr_window)),
                          params.atr_window)
          ELSE stop_loss_price
    /\ UNCHANGED << position, entry_price, take_profit_price >>
    /\ KeepColumns

TurtleHoldBar ==
    /\ strategy = "turtle"
    /\ TakeBar
    /\ ~TurtleUndefined(k + 1)
    /\ ~TurtleEntryCond(k + 1)
    /\ ~TurtleExitCond(k + 1)
    /\ KeepLocals
    /\ KeepColumns

(***************************************************************************)
(* PullbackBuyStrategy.  Prices are positive, so a division by recent_high *)
(* or support_ma is a multiplication of the other side of the comparison.  *)
(***************************************************************************)
\* the defaults of the constructor; pullback_threshold is in hundredths
PullbackParams ==
    { [trend_window |-> 50, support_window |-> 20, pullback_threshold |-> 5,
       rsi_window |-> 14, rsi_oversold |-> 30, atr_window |-> 20,
       stop_loss_multiplier |-> 2, take_profit_multiplier |-> 3] }

\* 30 bars at 129 (the second at 126), a rise to 137 with a High of 140, then
\* a drop to 131: on bar 50 a Close of 133 is a 5% retracement from 140
PullbackWarmup ==
    [j \in 1..49 |->
        IF j = 2 THEN Flat(126)
        ELSE IF j <= 30 THEN Flat(129)
        ELSE IF j = 31 THEN HLC(140, 137, 137)
        ELSE IF j = 49 THEN Flat(131)
        ELSE Flat(137)]

PullbackPrefixes == { << >>, PullbackWarmup }

PullbackTailBars ==
    { HLC(134, 133, 133), Flat(132), HLC(133, 131, 133), HLC(136, 133, 134), NaNBar }

\* delta = data['Close'].diff() at bar t
CloseDiff(d, t) ==
    IF t <= 1 \/ isna(d[t].Close) \/ isna(d[t - 1].Close) THEN NaN
    ELSE Num(Val(d[t].Close) - Val(d[t - 1].Close))

\* delta.where(delta > 0, 0): a NaN delta fails the test and becomes 0
GainAt(d, t) ==
    LET x == CloseDiff(d, t) IN IF ~isna(x) /\ Val(x) > 0 THEN x ELSE Num(0)

\* -delta.where(delta < 0, 0)
LossAt(d, t) ==
    LET x == CloseDiff(d, t) IN IF ~isna(x) /\ Val(x) < 0 THEN Num(-Val(x)) ELSE Num(0)

\* the window sums of gain and loss behind calculate_rsi at bar t
RsiGain(d, t, w) == RollingSum([j \in 1..Len(d) |-> GainAt(d, j)], t, w)

RsiLoss(d, t, w) == RollingSum([j \in 1..Len(d) |-> LossAt(d, j)], t, w)

\* calculate_rsi is NaN before the window is full and where gain / loss is 0 / 0
RsiIsNa(d, t, w) ==
    \/ isna(RsiGain(d, t, w))
    \/ /\ ~isna(RsiGain(d, t, w))
       /\ Val(RsiGain(d, t, w)) = 0
       /\ Val(RsiLoss(d, t, w)) = 0

\* calculate_rsi at bar t: 100 - 100 / (1 + gain / loss) is 100 * gain /
\* (gain + loss); gain / 0 is infinite for gain > 0 and the value is 100,
\* 0 / 0 is NaN and so is the value
calculate_rsi(d, t, w) ==
    IF RsiIsNa(d, t, w) THEN NaN
    ELSE Num(Frac(100 * Val(RsiGain(d, t, w)),
                  Val(RsiGain(d, t, w)) + Val(RsiLoss(d, t, w))))

\* rsi < level, for 100 - 100 / (1 + gain / loss); loss = 0 gives rsi = 100
RsiBelow(d, t, w, level) ==
    /\ ~RsiIsNa(d, t, w)
    /\ LET g == Val(RsiGain(d, t, w))
           l == Val(RsiLoss(d, t, w))
       IN  IF l = 0 THEN 100 < level ELSE 100 * g < level * (g + l)

trend_ma(d, t) == RollingSum(Col(d, "Close"), t, params.trend_window)

support_ma(d, t) == RollingSum(Col(d, "Close"), t, params.support_window)

\* df['High'].rolling(window=20).max()
recent_high(d, t) == RollingMax(Col(d, "High"), t, 20)

\* df['Close'] > df['trend_ma']
uptrend(d, t) ==
    /\ ~isna(d[t].Close) /\ ~isna(trend_ma(d, t))
    /\ Val(d[t].Close) * params.trend_window > Val(trend_ma(d, t))

\* abs(Close - support_ma) / support_ma < 0.03
near_support(d, t) ==
    /\ ~isna(d[t].Close) /\ ~isna(support_ma(d, t))
    /\ 100 * Abs(Val(d[t].Close) * params.support_window - Val(support_ma(d, t)))
          < 3 * Val(support_ma(d, t))

\* (recent_high - Close) / recent_high >= pullback_threshold
pullback_signal(d, t) ==
    /\ ~isna(d[t].Close) /\ ~isna(recent_high(d, t))
    /\ 100 * (Val(recent_high(d, t)) - Val(d[t].Close))
          >= params.pullback_threshold * Val(recent_high(d, t))

PullbackUndefined(t) ==
    \/ isna(trend_ma(data, t))
    \/ isna(support_ma(data, t))
    \/ RsiIsNa(data, t, params.rsi_window)
    \/ isna(calculate_atr(data, t, params.atr_window))

\* the entry test without the support band
PullbackEntryCond_no_support(t) ==
    /\ position = 0
    /\ uptrend(data, t)
    /\ pullback_signal(data, t)
    /\ RsiBelow(data, t, params.rsi_window, params.rsi_oversold)
    /\ t > 1
    /\ ~isna(data[t].Close) /\ ~isna(data[t - 1].Close)
    /\ Val(data[t].Close) > Val(data[t - 1].Close)

PullbackEntryCond(t) ==
    /\ position = 0
    /\ uptrend(data, t)
    /\ pullback_signal(data, t)
    /\ near_support(data, t)
    /\ RsiBelow(data, t, params.rsi_window, params.rsi_oversold)
    /\ t > 1
    /\ ~isna(data[t].Close) /\ ~isna(data[t - 1].Close)
    /\ Val(data[t].Close) > Val(data[t - 1].Close)

\* the exit test with the levels passed, not touched
PullbackExitCond_strict(t) ==
    /\ position > 0
    /\ \/ ~isna(data[t].Low) /\ Val(data[t].Low) * params.atr_window < stop_loss_price
       \/ ~isna(data[t].High) /\ Val(data[t].High) * params.atr_window > take_profit_price
       \/ ~uptrend(data, t)

\* stop_loss_price and take_profit_price are held in units of 1/atr_window
PullbackExitCond(t) ==
    /\ position > 0
    /\ \/ ~isna(data[t].Low) /\ Val(data[t].Low) * params.atr_window <= stop_loss_price
       \/ ~isna(data[t].High) /\ Val(data[t].High) * params.atr_window >= take_profit_price
       \/ ~uptrend(data, t)

PullbackSkipBar ==
    /\ strategy = "pullback"
    /\ TakeBar
    /\ PullbackUndefined(k + 1)
    /\ KeepLocals
    /\ KeepColumns

PullbackEnterBar ==
    /\ strategy = "pullback"
    /\ TakeBar
    /\ ~PullbackUndefined(k + 1)
    /\ PullbackEntryCond(k + 1)
    /\ Emit(k + 1, 1)
    /\ position' = 1
    /\ entry_price' = Val(data[k + 1].Close)
    /\ LET atrsum == Val(calculate_atr(data, k + 1, params.atr_window))
           c == Val(data[k + 1].Close)
       IN  /\ stop_loss_price' =
                 c * params.atr_window - params.stop_loss_multiplier * atrsum
           /\ take_profit_price' =
                 c * params.atr_window + params.take_profit_multiplier * atrsum

\* the exit that leaves entry_price as it was
PullbackExitBar_keeps_price ==
    /\ strategy = "pullback"
    /\ TakeBar
    /\ ~PullbackUndefined(k + 1)
    /\ ~PullbackEntryCond(k + 1)
    /\ PullbackExitCond(k + 1)
    /\ Emit(k + 1, -1)
    /\ position' = 0
    /\ stop_loss_price' = 0
    /\ take_profit_price' = 0
    /\ UNCHANGED entry_price

PullbackExitBar ==
    /\ strategy = "pullback"
    /\ TakeBar
    /\ ~PullbackUndefined(k + 1)
    /\ ~PullbackEntryCond(k + 1)
    /\ PullbackExitCond(k + 1)
    /\ Emit(k + 1, -1)
    /\ position' = 0
    /\ entry_price' = 0
    /\ stop_loss_price' = 0
    /\ take_profit_price' = 0

PullbackHoldBar ==
    /\ strategy = "pullback"
    /\ TakeBar
    /\ ~PullbackUndefined(k + 1)
    /\ ~PullbackEntryCond(k + 1)
    /\ ~PullbackExitCond(k + 1)
    /\ KeepLocals
    /\ KeepColumns

(***************************************************************************)
(* ChuChiaHungStrategy.  Its loop starts at the 61st bar.                  *)
(***************************************************************************)
ChuParams == { [name |-> "chu"] }

ChuFirst == 60

\* 40 bars at 100, then 20 bars at 110
ChuWarmup == [j \in 1..60 |-> IF j <= 40 THEN Flat(100) ELSE Flat(110)]

\* the warm-up, a bar that enters, a bar the provider left empty, then 19
\* bars at 112: from bar 82 on MA20 is defined again while MA60 is not
ChuGapPrefix ==
    ChuWarmup
    \o << Bar(Num(110), Num(112), Num(110), Num(112), Num(200)), NaNBar >>
    \o [j \in 1..19 |-> Flat(112)]

ChuPrefixes == { << >>, ChuWarmup, ChuGapPrefix }

ChuTailBars ==
    { Bar(Num(110), Num(112), Num(110), Num(112), Num(200)),
      NaNBar, Flat(112), Flat(100) }

MA20(d, t) == RollingSum(Col(d, "Close"), t, 20)

MA60(d, t) == RollingSum(Col(d, "Close"), t, 60)

Volume_MA5(d, t) == RollingSum(Col(d, "Volume"), t, 5)

ChuUndefined(t) == isna(MA20(data, t)) \/ isna(MA60(data, t))

\* MA20 > MA60 and MA60 > prev_row['MA60']
ChuUptrend(d, t) ==
    /\ 60 * Val(MA20(d, t)) > 20 * Val(MA60(d, t))
    /\ ~isna(MA60(d, t - 1))
    /\ Val(MA60(d, t)) > Val(MA60(d, t - 1))

\* Low <= MA20 * 1.03 and Close > MA20
ChuPullback(d, t) ==
    /\ ~isna(d[t].Low)
    /\ 100 * 20 * Val(d[t].Low) <= 103 * Val(MA20(d, t))
    /\ 20 * Val(d[t].Close) > Val(MA20(d, t))

\* Volume > Volume_MA5 and Close > Open
ChuBuySignal(d, t) ==
    /\ ~isna(d[t].Volume) /\ ~isna(Volume_MA5(d, t))
    /\ 5 * Val(d[t].Volume) > Val(Volume_MA5(d, t))
    /\ ~isna(d[t].Open)
    /\ Val(d[t].Close) > Val(d[t].Open)

ChuEntryCond(t) ==
    /\ position = 0
    /\ ChuUptrend(data, t)
    /\ ChuPullback(data, t)
    /\ ChuBuySignal(data, t)

ChuExitCond(t) ==
    /\ position > 0
    /\ 20 * Val(data[t].Close) < Val(MA20(data, t))

\* the skipped bar that still exits when MA20 alone is defined
ChuSkipBar_exits_on_MA20 ==
    /\ strategy = "chu"
    /\ TakeBar
    /\ ChuUndefined(k + 1)
    /\ IF /\ position > 0
          /\ ~isna(MA20(data, k + 1)) /\ ~isna(data[k + 1].Close)
          /\ 20 * Val(data[k + 1].Close) < Val(MA20(data, k + 1))
       THEN /\ Emit(k + 1, -1)
            /\ position' = 0
            /\ UNCHANGED << entry_price, stop_loss_price, take_profit_price >>
       ELSE KeepLocals /\ KeepColumns

ChuSkipBar ==
    /\ strategy = "chu"
    /\ TakeBar
    /\ ChuUndefined(k + 1)
    /\ KeepLocals
    /\ KeepColumns

ChuEnterBar ==
    /\ strategy = "chu"
    /\ TakeBar
    /\ ~ChuUndefined(k + 1)
    /\ ChuEntryCond(k + 1)
    /\ Emit(k + 1, 1)
    /\ position' = 1
    /\ UNCHANGED << entry_price, stop_loss_price, take_profit_price >>

ChuExitBar ==
    /\ strategy = "chu"
    /\ TakeBar
    /\ ~ChuUndefined(k + 1)
    /\ ~ChuEntryCond(k + 1)
    /\ ChuExitCond(k + 1)
    /\ Emit(k + 1, -1)
    /\ position' = 0
    /\ UNCHANGED << entry_price, stop_loss_price, take_profit_price >>

ChuHoldBar ==
    /\ strategy = "chu"
    /\ TakeBar
    /\ ~ChuUndefined(k + 1)
    /\ ~ChuEntryCond(k + 1)
    /\ ~ChuExitCond(k + 1)
    /\ KeepLocals
    /\ KeepColumns

(***************************************************************************)
(* SMAcrossoverStrategy.  generate_signals is vectorised: the signal and   *)
(* position columns are computed whole, the position column by diff(), so  *)
(* its entries are optional numbers (the first is NaN).                    *)
(***************************************************************************)
SmaParams ==
    { [short_window |-> 1, long_window |-> 2],
      [short_window |-> 2, long_window |-> 3] }

SmaPrefixes == { << >>, << Flat(60), Flat(50) >> }

SmaTailBars == { Flat(50), Flat(60), NaNBar }

\* the data argument: the frame run_multiple_backtests passes, else any
SmaData == IF bpc # "none" THEN { data } ELSE DataOf(SmaPrefixes, SmaTailBars)

\* w times df['Close'].rolling(window=w).mean() at bar t
SMA(d, t, w) == RollingSum(Col(d, "Close"), t, w)

\* short average > long average (a comparison with NaN is False)
SmaAbove(d, t, sw, lw) ==
    /\ ~isna(SMA(d, t, sw)) /\ ~isna(SMA(d, t, lw))
    /\ lw * Val(SMA(d, t, sw)) > sw * Val(SMA(d, t, lw))

\* short average < long average
SmaBelow(d, t, sw, lw) ==
    /\ ~isna(SMA(d, t, sw)) /\ ~isna(SMA(d, t, lw))
    /\ lw * Val(SMA(d, t, sw)) < sw * Val(SMA(d, t, lw))

\* df['signal'] at bar t
SmaSignal(d, t, sw, lw) ==
    IF SmaBelow(d, t, sw, lw) THEN -1
    ELSE IF SmaAbove(d, t, sw, lw) THEN 1
    ELSE 0

\* df['signal'].diff() at bar t
SmaDiff(d, t, sw, lw) ==
    IF t <= 1 THEN NaN
    ELSE Num(SmaSignal(d, t, sw, lw) - SmaSignal(d, t - 1, sw, lw))

\* SMAcrossoverStrategy.generate_signals
GenSma ==
    /\ strategy = "sma"
    /\ gpc = "idle"
    /\ \E d \in SmaData :
          /\ data' = d
          /\ signal' = [j \in 1..Len(d) |->
                           SmaSignal(d, j, params.short_window, params.long_window)]
          /\ position_col' = [j \in 1..Len(d) |->
                                 SmaDiff(d, j, params.short_window, params.long_window)]
          /\ k' = Len(d)
    /\ gpc' = "done"
    /\ UNCHANGED << strategy, params, gpre >>
    /\ KeepLocals
    /\ UNCHANGED evars

(***************************************************************************)
(* BuyAndHoldStrategy: position 1 on the first bar, 0 on the others; the   *)
(* frame has no signal column.                                             *)
(***************************************************************************)
BuyHoldParams == { [name |-> "buyhold"] }

GenBuyHold ==
    /\ strategy = "buyhold"
    /\ gpc = "idle"
    /\ \E d \in SmaData :
          /\ data' = d
          /\ position_col' = [j \in 1..Len(d) |-> Num(IF j = 1 THEN 1 ELSE 0)]
          /\ k' = Len(d)
    /\ signal' = << >>
    /\ gpc' = "done"
    /\ UNCHANGED << strategy, params, gpre >>
    /\ KeepLocals
    /\ UNCHANGED evars

\* a strategy object as its constructor leaves it
GenInit ==
    /\ pc = "idle"
    /\ initial_capital = 100000
    /\ engine_capital = 100000
    /\ commission = 1
    /\ capital = initial_capital * Scale
    /\ positions = NaN
    /\ trades = << >>
    /\ portfolio_value = << >>
    /\ current_position = 0
    /\ nbars = 0
    /\ i = 0
    /\ row = NoRow
    /\ pre = [capital |-> initial_capital * Scale, positions |-> NaN,
              current_position |-> 0, ntrades |-> 0]
    /\ index = << >>
    /\ symbol = "STOCK"
    /\ name = "Strategy"
    /\ performance = EmptyReport
    /\ results = NoResults
    /\ fill_method = "pad"
    /\ BatchIdle
    /\ FreshRefs
    /\ \/ strategy = "turtle" /\ params \in TurtleParams
       \/ strategy = "pullback" /\ params \in PullbackParams
       \/ strategy = "chu" /\ params \in ChuParams
       \/ strategy = "sma" /\ params \in SmaParams
       \/ strategy = "buyhold" /\ params \in BuyHoldParams
    /\ data = << >>
    /\ gpc = "idle"
    /\ k = 0
    /\ position = 0
    /\ entry_price = 0
    /\ stop_loss_price = 0
    /\ take_profit_price = 0
    /\ signal = << >>
    /\ position_col = << >>
    /\ gpre = NoLocals

InputData ==
    IF bpc # "none" THEN { data }
    ELSE IF strategy = "turtle" THEN DataOf(TurtlePrefixes, TurtleTailBars)
    ELSE IF strategy = "pullback" THEN DataOf(PullbackPrefixes, PullbackTailBars)
    ELSE DataOf(ChuPrefixes, ChuTailBars)

\* the bars a loop passes over before its first iteration: range(60, len(df))
\* in ChuChiaHungStrategy, range(len(df)) in the others
FirstBar(d) ==
    IF strategy = "chu" THEN (IF Len(d) > ChuFirst THEN ChuFirst ELSE Len(d)) ELSE 0

\* generate_signals up to its loop: the indicator frame, the zeroed signal
\* and position columns, the locals
GenStart ==
    /\ gpc = "idle"
    /\ strategy \in {"turtle", "pullback", "chu"}
    /\ \E d \in InputData :
          /\ data' = d
          /\ signal' = [j \in 1..Len(d) |-> 0]
          /\ position_col' = [j \in 1..Len(d) |-> 0]
          /\ k' = FirstBar(d)
    /\ position' = 0
    /\ entry_price' = 0
    /\ stop_loss_price' = 0
    /\ take_profit_price' = 0
    /\ gpre' = NoLocals
    /\ gpc' = "loop"
    /\ UNCHANGED << strategy, params >>
    /\ UNCHANGED evars

\* generate_signals returns df
GenDone ==
    /\ gpc = "loop"
    /\ k = Len(data)
    /\ gpc' = "done"
    /\ UNCHANGED << strategy, params, data, k, position, entry_price, stop_loss_price,
                    take_profit_price, signal, position_col, gpre >>
    /\ UNCHANGED evars

GenNext ==
    \/ GenStart
    \/ TurtleSkipBar \/ TurtleEnterBar \/ TurtleExitBar \/ TurtleHoldBar
    \/ PullbackSkipBar \/ PullbackEnterBar \/ PullbackExitBar \/ PullbackHoldBar
    \/ ChuSkipBar \/ ChuEnterBar \/ ChuExitBar \/ ChuHoldBar
    \/ GenDone
    \/ GenSma \/ GenBuyHold

GenSpec == GenInit /\ [][GenNext]_vars

(***************************************************************************)
(* run_backtest on a SMAcrossoverStrategy or a BuyAndHoldStrategy: the     *)
(* strategy generates its frame, the engine replays the frame's rows.      *)
(* Neither frame has a position_size column.                               *)
(***************************************************************************)
RunInit ==
    /\ pc = "idle"
    /\ initial_capital \in InitialCapitals
    /\ engine_capital \in EngineCapitals
    /\ commission \in Commissions
    /\ capital = initial_capital * Scale
    /\ positions = NaN
    /\ trades = << >>
    /\ portfolio_value = << >>
    /\ current_position = 0
    /\ nbars = 0
    /\ i = 0
    /\ row = NoRow
    /\ pre = [capital |-> initial_capital * Scale, positions |-> NaN,
              current_position |-> 0, ntrades |-> 0]
    /\ index = << >>
    /\ symbol = "STOCK"
    /\ name = "Strategy"
    /\ performance = EmptyReport
    /\ results = NoResults
    /\ fill_method \in FillMethods
    /\ BatchIdle
    /\ FreshRefs
    /\ \/ strategy = "sma" /\ params \in SmaParams
       \/ strategy = "buyhold" /\ params \in BuyHoldParams
    /\ data = << >>
    /\ gpc = "idle"
    /\ k = 0
    /\ position = 0
    /\ entry_price = 0
    /\ stop_loss_price = 0
    /\ take_profit_price = 0
    /\ signal = << >>
    /\ position_col = << >>
    /\ gpre = NoLocals

RunNext ==
    \/ GenSma \/ GenBuyHold
    \/ StartRun \/ SkipBar \/ EntryBar \/ VetoBar \/ ExitBar \/ HoldBar \/ Finish

RunSpec == RunInit /\ [][RunNext]_vars

(***************************************************************************)
(* BacktestEngine.run_multiple_backtests(strategies, data_dict): for each  *)
(* symbol of data_dict in order, for each strategy object of the list in   *)
(* order, run_backtest is called inside a try block.  The strategy objects *)
(* are real ones, so a run is generate_signals on the symbol's data, then  *)
(* the reset, then the bar loop over the frame generated.                  *)
(***************************************************************************)
MaxStrategies == 2

MaxSymbols == 2

\* the strategy objects a list is made of, as their constructors leave them
\* (the TurtleStrategy is named in ASCII)
BatchObjects ==
    << [class |-> "buyhold", name |-> "Buy and Hold", initial_capital |-> 100000,
        params |-> [name |-> "buyhold"]],
       [class |-> "buyhold", name |-> "Buy and Hold", initial_capital |-> 1000,
        params |-> [name |-> "buyhold"]],
       [class |-> "sma", name |-> "SMA Crossover", initial_capital |-> 100000,
        params |-> [short_window |-> 1, long_window |-> 2]],
       [class |-> "turtle", name |-> "Turtle", initial_capital |-> 100000,
        params |-> [entry_window |-> 1, exit_window |-> 1, atr_window |-> 1,
                    stop_loss_multiplier |-> 2]] >>

\* a bar with the given High and Low whose Close is missing
NoClose(h, l) == Bar(NaN, Num(h), Num(l), NaN, Num(100))

\* the price series a symbol may carry: a rise, a gap and two equal bars (the
\* true range of the last is 0); a rise of 1 and a fall (a TurtleStrategy
\* sizes the entry at 1000 shares, more than the cash buys); a rise, a bar
\* without Close below the stop, a new high and a quiet bar
BatchData ==
    { << Flat(100), Flat(105), NaNBar, Flat(90), Flat(90) >>,
      << Flat(100), Flat(101), Flat(100) >>,
      << Flat(100), Flat(105), NoClose(90, 90), HLC(112, 108, 110), Flat(111) >> }

SymbolNames == << "AAA", "BBB", "CCC" >>

\* the data_dict arguments: up to MaxSymbols symbols, each with a series
DataDicts ==
    UNION { { [j \in 1..n |-> [symbol |-> SymbolNames[j], data |-> f[j]]] :
                f \in [1..n -> BatchData] } : n \in 0..MaxSymbols }

\* a strategy object's attributes after BaseStrategy.__init__; used records
\* whether run_backtest was ever called with the object
NewObject(o) ==
    [capital |-> BatchObjects[o].initial_capital * Scale, positions |-> NaN,
     trades |-> << >>, portfolio_value |-> << >>, used |-> FALSE,
     trades_ref |-> 2 * o - 1, portfolio_value_ref |-> 2 * o]

\* the attributes of the strategy object in use, as they stand
UsedObject ==
    [capital |-> capital, positions |-> positions, trades |-> trades,
     portfolio_value |-> portfolio_value, used |-> TRUE,
     trades_ref |-> refs.trades, portfolio_value_ref |-> refs.portfolio_value]

\* the frame generate_signals returned
Frame == [t \in 1..Len(data) |-> DfRow(t)]

\* the dict run_backtest returns
Result ==
    [performance |-> performance, trades |-> trades,
     portfolio_value |-> portfolio_value, signals_data |-> Frame]

\* the dict recorded for a pair whose run raised
EmptyResult ==
    [performance |-> EmptyReport, trades |-> << >>, portfolio_value |-> << >>,
     signals_data |-> << >>]

\* the dict of the except branch is made of new objects nothing else holds
NoRefs == [trades |-> 0, portfolio_value |-> 0, performance |-> 0]

\* the outcome of the run_backtest call that just ended; refs names the
\* objects the returned dict holds
Outcome(raised, res) ==
    [object |-> cur, symbol |-> symbol, data |-> data, fresh |-> ~objects[cur].used,
     raised |-> raised, result |-> res, refs |-> IF raised THEN NoRefs ELSE refs]

NoSymbolResults == [n \in {} |-> EmptyResult]

NoAllResults == [s \in {} |-> NoSymbolResults]

\* a fresh engine, fresh strategy objects, run_multiple_backtests called
BatchInit ==
    /\ pc = "idle"
    /\ initial_capital = 100000
    /\ engine_capital = 100000
    /\ commission = 1
    /\ capital = initial_capital * Scale
    /\ positions = NaN
    /\ trades = << >>
    /\ portfolio_value = << >>
    /\ current_position = 0
    /\ nbars = 0
    /\ i = 0
    /\ row = NoRow
    /\ pre = [capital |-> initial_capital * Scale, positions |-> NaN,
              current_position |-> 0, ntrades |-> 0]
    /\ index = << >>
    /\ symbol = "STOCK"
    /\ name = "Strategy"
    /\ performance = EmptyReport
    /\ results = NoResults
    /\ fill_method = "pad"
    /\ bpc = "symbol"
    /\ strategies \in SeqUpTo(1..Len(BatchObjects), MaxStrategies)
    /\ data_dict \in DataDicts
    /\ si = 0
    /\ sj = 0
    /\ symbol_results = NoSymbolResults
    /\ all_results = NoAllResults
    /\ objects = [o \in 1..Len(BatchObjects) |-> NewObject(o)]
    /\ cur = 0
    /\ history = << >>
    /\ refs = NoRefs
    /\ allocated = 2 * Len(BatchObjects)
    /\ strategy = "none"
    /\ params = << >>
    /\ data = << >>
    /\ gpc = "idle"
    /\ k = 0
    /\ position = 0
    /\ entry_price = 0
    /\ stop_loss_price = 0
    /\ take_profit_price = 0
    /\ signal = << >>
    /\ position_col = << >>
    /\ gpre = NoLocals

\* what run_multiple_backtests leaves alone between two calls of run_backtest
BatchKeeps ==
    /\ UNCHANGED << pc, initial_capital, engine_capital, commission, capital, positions,
                    trades, portfolio_value, current_position, nbars, i, row, pre,
                    index, symbol, name, performance, results, fill_method >>
    /\ UNCHANGED rvars
    /\ UNCHANGED svars

\* for symbol, data in data_dict.items(): symbol_results = {}
BatchSymbol ==
    /\ bpc = "symbol"
    /\ si < Len(data_dict)
    /\ symbol_results' = NoSymbolResults
    /\ sj' = 0
    /\ bpc' = "strategy"
    /\ UNCHANGED << strategies, data_dict, si, all_results, objects, cur, history >>
    /\ BatchKeeps

\* for strategy in strategies: run_backtest(strategy, data, symbol) is entered
\* with the object's attributes as its last run left them
BatchCall ==
    /\ bpc = "strategy"
    /\ sj < Len(strategies)
    /\ LET o == strategies[sj + 1]
       IN  /\ cur' = o
           /\ strategy' = BatchObjects[o].class
           /\ params' = BatchObjects[o].params
           /\ name' = BatchObjects[o].name
           /\ initial_capital' = BatchObjects[o].initial_capital
           /\ capital' = objects[o].capital
           /\ positions' = objects[o].positions
           /\ trades' = objects[o].trades
           /\ portfolio_value' = objects[o].portfolio_value
           /\ refs' = [refs EXCEPT !.trades = objects[o].trades_ref,
                                   !.portfolio_value = objects[o].portfolio_value_ref]
           /\ pre' = [capital |-> objects[o].capital, positions |-> objects[o].positions,
                      current_position |-> 0, ntrades |-> Len(objects[o].trades)]
    /\ data' = data_dict[si + 1].data
    /\ symbol' = data_dict[si + 1].symbol
    /\ pc' = "idle"
    /\ gpc' = "idle"
    /\ bpc' = "running"
    /\ current_position' = 0
    /\ nbars' = 0
    /\ i' = 0
    /\ row' = NoRow
    /\ index' = << >>
    /\ k' = 0
    /\ position' = 0
    /\ entry_price' = 0
    /\ stop_loss_price' = 0
    /\ take_profit_price' = 0
    /\ signal' = << >>
    /\ position_col' = << >>
    /\ gpre' = NoLocals
    /\ UNCHANGED << engine_capital, commission, performance, results, fill_method,
                    strategies, data_dict, si, sj, symbol_results, all_results,
                    objects, history, allocated >>

\* the except branch recording nothing for the pair
BatchCatch_records_nothing ==
    /\ bpc = "running"
    /\ pc = "raised"
    /\ objects' = [objects EXCEPT ![cur] = UsedObject]
    /\ history' = Append(history, Outcome(TRUE, EmptyResult))
    /\ sj' = sj + 1
    /\ bpc' = "strategy"
    /\ UNCHANGED << strategies, data_dict, si, symbol_results, all_results, cur >>
    /\ BatchKeeps

\* run_backtest returned: symbol_results[strategy.name] = result
BatchRecord ==
    /\ bpc = "running"
    /\ pc = "done"
    /\ symbol_results' = Store(symbol_results, name, Result)
    /\ objects' = [objects EXCEPT ![cur] = UsedObject]
    /\ history' = Append(history, Outcome(FALSE, Result))
    /\ sj' = sj + 1
    /\ bpc' = "strategy"
    /\ UNCHANGED << strategies, data_dict, si, all_results, cur >>
    /\ BatchKeeps

\* run_backtest raised: except Exception records an empty result for the pair
BatchCatch ==
    /\ bpc = "running"
    /\ pc = "raised"
    /\ symbol_results' = Store(symbol_results, name, EmptyResult)
    /\ objects' = [objects EXCEPT ![cur] = UsedObject]
    /\ history' = Append(history, Outcome(TRUE, EmptyResult))
    /\ sj' = sj + 1
    /\ bpc' = "strategy"
    /\ UNCHANGED << strategies, data_dict, si, all_results, cur >>
    /\ BatchKeeps

\* the inner loop is over: all_results[symbol] = symbol_results
BatchSymbolDone ==
    /\ bpc = "strategy"
    /\ sj = Len(strategies)
    /\ all_results' = Store(all_results, data_dict[si + 1].symbol, symbol_results)
    /\ si' = si + 1
    /\ bpc' = "symbol"
    /\ UNCHANGED << strategies, data_dict, sj, symbol_results, objects, cur, history >>
    /\ BatchKeeps

\* the outer loop is over: return all_results
BatchReturn ==
    /\ bpc = "symbol"
    /\ si = Len(data_dict)
    /\ bpc' = "returned"
    /\ UNCHANGED << strategies, data_dict, si, sj, symbol_results, all_results,
                    objects, cur, history >>
    /\ BatchKeeps

BatchNext ==
    \/ BatchSymbol \/ BatchCall \/ BatchRecord \/ BatchCatch \/ BatchSymbolDone
    \/ BatchReturn
    \/ GenStart \/ TurtleSkipBar \/ TurtleEnterBar \/ TurtleExitBar \/ TurtleHoldBar
    \/ GenDone \/ GenSma \/ GenBuyHold
    \/ StartRun \/ SkipBar \/ EntryBar \/ VetoBar \/ ExitBar \/ HoldBar \/ RaiseBar
    \/ Finish

BatchSpec == BatchInit /\ [][BatchNext]_vars

(***************************************************************************)
(* get_performance_metrics called on a strategy object whose valuation     *)
(* history is given.  Only the ratios of the valuations matter to the      *)
(* metrics, so the histories are drawn over a few small values.            *)
(***************************************************************************)
MaxValues == 4

ValuationValues == {40, 90, 100, 110, 120}

Histories == SeqUpTo(Opt(ValuationValues), MaxValues)

MetricsInit ==
    /\ pc = "idle"
    /\ initial_capital = 100000
    /\ engine_capital = 100000
    /\ commission = 1
    /\ capital = initial_capital * Scale
    /\ positions = NaN
    /\ trades = << >>
    /\ portfolio_value \in Histories
    /\ current_position = 0
    /\ nbars = 0
    /\ i = 0
    /\ row = NoRow
    /\ pre = [capital |-> initial_capital * Scale, positions |-> NaN,
              current_position |-> 0, ntrades |-> 0]
    /\ index = << >>
    /\ symbol = "STOCK"
    /\ name = "Strategy"
    /\ performance = EmptyReport
    /\ results = NoResults
    /\ fill_method \in FillMethods
    /\ BatchIdle
    /\ FreshRefs
    /\ SignalsIdle

\* strategy.get_performance_metrics()
GetPerformanceMetrics ==
    /\ pc = "idle"
    /\ pc' = "reported"
    /\ performance' = get_performance_metrics(portfolio_value, trades, fill_method)
    /\ refs' = [refs EXCEPT !.performance = allocated + 1]
    /\ allocated' = allocated + 1
    /\ UNCHANGED << initial_capital, engine_capital, commission, capital, positions,
                    trades, portfolio_value, current_position, nbars, i, row, pre,
                    index, symbol, name, results, fill_method, bvars >>
    /\ UNCHANGED svars

MetricsNext == GetPerformanceMetrics

MetricsSpec == MetricsInit /\ [][MetricsNext]_vars

(***************************************************************************)
(* Properties of generate_signals.  gpre holds the locals as they were     *)
(* when the loop took bar k.                                               *)
(***************************************************************************)
InGen == gpc \in {"loop", "done"} /\ k >= 1

IsTurtle == strategy = "turtle"

\* a required indicator of bar j is undefined, for the strategy that runs
UndefinedAt(j) ==
    IF strategy = "turtle" THEN TurtleUndefined(j)
    ELSE IF strategy = "pullback" THEN PullbackUndefined(j)
    ELSE ChuUndefined(j)

\* the loop has taken bar k (ChuChiaHungStrategy's loop starts after bar 60)
BarTaken == InGen /\ (strategy = "chu" => k > ChuFirst)

\* C7: in TurtleStrategy, PullbackBuyStrategy and ChuChiaHungStrategy, on a
\* bar where a required indicator is undefined the signal and the position
\* emitted are 0 and the carried locals (position, entry price, stop-loss
\* and take-profit) are unchanged, flat or long.
C7_UndefinedBarHolds ==
    (strategy \in {"turtle", "pullback", "chu"} /\ gpc \in {"loop", "done"}) =>
        /\ \A j \in 1..Len(data) :
              (signal[j] # 0 \/ position_col[j] # 0) => ~UndefinedAt(j)
        /\ (BarTaken /\ UndefinedAt(k)) => Locals = gpre

\* C7 witness: PullbackBuyStrategy takes a bar with an undefined indicator
\* while long
C7_Witness ==
    /\ strategy = "pullback" /\ BarTaken
    /\ UndefinedAt(k)
    /\ gpre.position = 1 /\ position = 1
    /\ stop_loss_price > 0 /\ take_profit_price > stop_loss_price
    /\ signal[k - 1] = 1

\* the bar of the last entry signal among bars 1..k (0 when there is none)
LastEntryBar ==
    LET E == { e \in 1..k : signal[e] = 1 }
    IN  IF E = {} THEN 0 ELSE SetMax(E)

\* entry close - stop_loss_multiplier * ATR of bar e, in units of 1/atr_window
TurtleStopOfBar(e) ==
    Val(data[e].Close) * params.atr_window
    - params.stop_loss_multiplier
      * SumRange([j \in 1..Len(data) |-> true_range(data, j)],
                 e - params.atr_window + 1, e)

\* bar k, taken while long with defined indicators, meets the exit rule
TurtleExitRuleAtK ==
    \/ /\ ~isna(data[k].Close)
       /\ Val(data[k].Close) < Val(exit_low(data, k, params.exit_window))
    \/ /\ ~isna(data[k].Low)
       /\ Val(data[k].Low) * params.atr_window < gpre.stop_loss_price

\* C8: the stop is set on the entry bar to entry close - multiplier * ATR of
\* that bar, keeps that value on every later bar until the exit bar, where
\* it is reset to 0; a long position is exited on the first later bar with
\* defined indicators whose Close is below the prior exit_window-bar low or
\* whose Low is below that stop.
C8_FixedStopUntilExit ==
    (IsTurtle /\ InGen) =>
        /\ (gpre.position = 0 /\ position = 1) =>
              /\ signal[k] = 1
              /\ stop_loss_price = TurtleStopOfBar(k)
        /\ (gpre.position = 1 /\ position = 1) =>
              /\ signal[k] = 0
              /\ stop_loss_price = gpre.stop_loss_price
        /\ position = 1 =>
              /\ LastEntryBar >= 1
              /\ \A j \in (LastEntryBar + 1)..k : signal[j] = 0
              /\ stop_loss_price = TurtleStopOfBar(LastEntryBar)
        /\ (gpre.position = 1 /\ position = 0) =>
              /\ signal[k] = -1
              /\ stop_loss_price = 0
        /\ (gpre.position = 1 /\ ~TurtleUndefined(k)) =>
              (position = 0 <=> TurtleExitRuleAtK)
        /\ (gpre.position = 1 /\ TurtleUndefined(k)) => position = 1

\* C8 witness: entered, held one bar, then stopped out by the Low alone
C8_Witness ==
    /\ IsTurtle /\ InGen /\ k >= 3
    /\ signal[k - 2] = 1 /\ signal[k - 1] = 0 /\ signal[k] = -1
    /\ gpre.stop_loss_price > 0
    /\ ~TurtleUndefined(k)
    /\ ~isna(data[k].Low) /\ ~isna(data[k].Close)
    /\ Val(data[k].Low) * params.atr_window < gpre.stop_loss_price
    /\ Val(data[k].Close) >= Val(exit_low(data, k, params.exit_window))
    /\ stop_loss_price = 0

\* C9: no transition is triggered by equality: a flat bar whose Close equals
\* entry_high emits no entry, and a long bar whose Close equals exit_low and
\* whose Low equals the stop emits no exit.
C9_NoTransitionOnEquality ==
    (IsTurtle /\ InGen /\ ~TurtleUndefined(k)) =>
        /\ (gpre.position <= 0
            /\ data[k].Close = entry_high(data, k, params.entry_window)) =>
              /\ signal[k] = 0 /\ position_col[k] = 0
              /\ position = gpre.position
        /\ (gpre.position > 0
            /\ data[k].Close = exit_low(data, k, params.exit_window)
            /\ ~isna(data[k].Low)
            /\ Val(data[k].Low) * params.atr_window = gpre.stop_loss_price) =>
              /\ signal[k] = 0 /\ position_col[k] = 0
              /\ position = gpre.position
              /\ stop_loss_price = gpre.stop_loss_price

\* C9 witness: long, Close on exit_low and Low on the stop, after a flat bar
\* with Close on entry_high
C9_Witness ==
    /\ IsTurtle /\ InGen /\ ~TurtleUndefined(k)
    /\ gpre.position > 0 /\ position > 0
    /\ data[k].Close = exit_low(data, k, params.exit_window)
    /\ ~isna(data[k].Low)
    /\ Val(data[k].Low) * params.atr_window = gpre.stop_loss_price
    /\ Val(data[k].Low) < Val(data[k].Close)

\* the series of the breakout scenario: High = Low = Close = 100, 101, 99, 105
BreakoutScenario ==
    /\ IsTurtle /\ gpc = "done"
    /\ params.entry_window = 3
    /\ Len(data) >= 4
    /\ \A j \in 1..4 : data[j] = Flat(<< 100, 101, 99, 105 >>[j])

BreakoutAtBar4 ==
    /\ RollingMax(Col(data, "High"), 3, 3) = Num(101)
    /\ entry_high(data, 4, params.entry_window) = Num(101)
    /\ signal[4] = 1 /\ position_col[4] = 1
    /\ \A j \in 1..3 : signal[j] = 0 /\ position_col[j] = 0

\* C10 (as amended): with entry window 3, exit_window <= 3 and atr_window <= 4,
\* on bars with High = Low = Close = 100, 101, 99, 105, ... the prior 3-bar
\* high at bar 4 is 101 and the first entry signal is at bar 4.
C10_BreakoutAmended ==
    (BreakoutScenario /\ params.exit_window <= 3 /\ params.atr_window <= 4) =>
        BreakoutAtBar4

\* C10 witness: the scenario has run with exit_window 3 and atr_window 4
C10_Witness ==
    /\ BreakoutScenario
    /\ params.exit_window = 3 /\ params.atr_window = 4
    /\ signal[4] = 1

\* C10 as stated: entry window 3 alone gives the entry at bar 4
C10_BreakoutAsStated == BreakoutScenario => BreakoutAtBar4

\* data with bar j replaced by b
WithBar(d, j, b) == [d EXCEPT ![j] = b]

\* the Highs (Lows) of the w bars before bar t are all defined
PriorDefined(d, f, t, w) == t > w /\ \A j \in (t - w)..(t - 1) : ~isna(d[j][f])

\* C11: entry_high at bar t is the maximum High of bars t-N..t-1 and exit_low
\* at bar t the minimum Low of bars t-M..t-1; replacing bar t or any later
\* bar changes neither threshold at bar t, and each is undefined while fewer
\* than N (resp. M) earlier bars exist.
C11_NoLookAhead ==
    (IsTurtle /\ gpc \in {"loop", "done"}) =>
        \A t \in 1..Len(data) :
            LET n == params.entry_window
                m == params.exit_window
                eh == entry_high(data, t, n)
                el == exit_low(data, t, m)
            IN  /\ t <= n => isna(eh)
                /\ t <= m => isna(el)
                /\ PriorDefined(data, "High", t, n) =>
                      /\ ~isna(eh)
                      /\ \E j \in (t - n)..(t - 1) : data[j].High = eh
                      /\ \A j \in (t - n)..(t - 1) : Val(data[j].High) <= Val(eh)
                /\ PriorDefined(data, "Low", t, m) =>
                      /\ ~isna(el)
                      /\ \E j \in (t - m)..(t - 1) : data[j].Low = el
                      /\ \A j \in (t - m)..(t - 1) : Val(data[j].Low) >= Val(el)
                /\ \A j \in t..Len(data) : \A b \in TurtleTailBars :
                      /\ entry_high(WithBar(data, j, b), t, n) = eh
                      /\ exit_low(WithBar(data, j, b), t, m) = el

\* C11 witness: the bar taken has a High above and a Low below the defined
\* thresholds of the bars before it
C11_Witness ==
    /\ IsTurtle /\ InGen /\ ~TurtleUndefined(k)
    /\ ~isna(data[k].High) /\ ~isna(data[k].Low)
    /\ Val(data[k].High) > Val(entry_high(data, k, params.entry_window))
    /\ Val(data[k].Low) < Val(exit_low(data, k, params.exit_window))
    /\ k < Len(data)

(***************************************************************************)
(* Properties of run_backtest on the frame of a SMAcrossoverStrategy.      *)
(***************************************************************************)
IsSma == strategy = "sma"

\* bar i, the bar the engine took last, recorded a trade
TradedThisBar == InRun /\ Len(trades) = pre.ntrades + 1

ShortAboveAt(t) == SmaAbove(data, t, params.short_window, params.long_window)

ShortBelowAt(t) == SmaBelow(data, t, params.short_window, params.long_window)

\* C12: for SMAcrossoverStrategy replayed by run_backtest, an entry trade
\* executes only on a bar where the short average is strictly above the long
\* average and was not above it on the previous bar, and an exit trade only
\* on a bar where the short average is strictly below the long average.
C12_TradesOnlyOnStrictCross ==
    (IsSma /\ TradedThisBar) =>
        /\ LastTrade.quantity > 0 =>
              (ShortAboveAt(i) /\ (i > 1 => ~ShortAboveAt(i - 1)))
        /\ LastTrade.quantity < 0 => ShortBelowAt(i)

(***************************************************************************)
(* Properties of the position column of every strategy.                    *)
(***************************************************************************)
\* the position column at bar j as the engine reads it
PositionAt(j) ==
    IF strategy \in {"sma", "buyhold"} THEN position_col[j] ELSE Num(position_col[j])

\* C13: for every strategy variant (SMA crossover, Turtle, Pullback,
\* ChuChiaHung, Buy-and-Hold) and every bar the engine does not skip, the
\* value of the position column is one of -1, 0, +1.
C13_PositionIsUnitSignal ==
    gpc = "done" =>
        \A j \in 1..Len(data) :
            (~isna(data[j].Close) /\ ~isna(PositionAt(j))) =>
                Val(PositionAt(j)) \in {-1, 0, 1}

(***************************************************************************)
(* Properties of PullbackBuyStrategy.generate_signals.                     *)
(***************************************************************************)
IsPullback == strategy = "pullback"

\* the loop has taken bar k and all its required indicators are defined
PullbackBarEvaluated == IsPullback /\ InGen /\ ~PullbackUndefined(k)

\* (recent_high - Close) / recent_high = pullback_threshold at bar t
RetracementEqualsThreshold(t) ==
    /\ ~isna(data[t].Close) /\ ~isna(recent_high(data, t))
    /\ 100 * (Val(recent_high(data, t)) - Val(data[t].Close))
          = params.pullback_threshold * Val(recent_high(data, t))

\* Close = trend_ma at bar t
CloseEqualsTrend(t) ==
    /\ ~isna(data[t].Close) /\ ~isna(trend_ma(data, t))
    /\ Val(data[t].Close) * params.trend_window = Val(trend_ma(data, t))

\* bar t stays clear of the stop-loss and take-profit levels held before it
ClearOfLevels(t) ==
    /\ ~isna(data[t].Low) /\ ~isna(data[t].High)
    /\ Val(data[t].Low) * params.atr_window > gpre.stop_loss_price
    /\ Val(data[t].High) * params.atr_window < gpre.take_profit_price

\* a retracement exactly equal to pullback_threshold emits no entry
C14_RetracementTie ==
    (PullbackBarEvaluated /\ gpre.position = 0 /\ RetracementEqualsThreshold(k)) =>
        (signal[k] # 1 /\ position = 0)

\* a long bar whose Close equals the trend average, clear of the stop-loss
\* and take-profit levels, emits no exit
C14_TrendTie ==
    (PullbackBarEvaluated /\ gpre.position > 0 /\ CloseEqualsTrend(k)
        /\ ClearOfLevels(k)) =>
        (signal[k] # -1 /\ position = gpre.position)

\* C14: in PullbackBuyStrategy no condition is satisfied by equality: a
\* retracement exactly equal to pullback_threshold does not count as a
\* pullback for entry, and a long bar whose Close exactly equals the trend
\* average does not cause a trend-invalidation exit.
C14_NoConditionByEquality == C14_RetracementTie /\ C14_TrendTie

\* atr_window times the ATR of bar e, summed from the true ranges
AtrSumOfBar(e) ==
    SumRange([j \in 1..Len(data) |-> true_range(data, j)],
             e - params.atr_window + 1, e)

\* entry close - stop_loss_multiplier * ATR of bar e, in units of 1/atr_window
PullbackStopOfBar(e) ==
    Val(data[e].Close) * params.atr_window - params.stop_loss_multiplier * AtrSumOfBar(e)

\* entry close + take_profit_multiplier * ATR of bar e, in the same units
PullbackTargetOfBar(e) ==
    Val(data[e].Close) * params.atr_window + params.take_profit_multiplier * AtrSumOfBar(e)

\* bar k, taken while long with defined indicators, meets the exit rule: Low
\* at or below the stop, High at or above the take-profit, or Close not above
\* the trend average
PullbackExitRuleAtK ==
    \/ Val(data[k].Low) * params.atr_window <= gpre.stop_loss_price
    \/ Val(data[k].High) * params.atr_window >= gpre.take_profit_price
    \/ Val(data[k].Close) * params.trend_window <= Val(trend_ma(data, k))

RisesOver(t, w) ==
    SumRange([j \in 1..Len(data) |->
                 IF j > 1 /\ Val(data[j].Close) > Val(data[j - 1].Close)
                 THEN Num(Val(data[j].Close) - Val(data[j - 1].Close)) ELSE Num(0)],
             t - w + 1, t)

FallsOver(t, w) ==
    SumRange([j \in 1..Len(data) |->
                 IF j > 1 /\ Val(data[j].Close) < Val(data[j - 1].Close)
                 THEN Num(Val(data[j - 1].Close) - Val(data[j].Close)) ELSE Num(0)],
             t - w + 1, t)

\* the sum of the Closes of the w bars ending at bar t
CloseSum(t, w) == SumRange(Col(data, "Close"), t - w + 1, t)

\* the highest High of the 20 bars ending at bar t
HighOver20(t) == SetMax({ Val(data[j].High) : j \in (t - 19)..t })

\* the five entry conditions of bar t, each computed from the bars
AllEntryConditions(t) ==
    LET c == Val(data[t].Close)
        tw == params.trend_window
        sw == params.support_window
        g == RisesOver(t, params.rsi_window)
        l == FallsOver(t, params.rsi_window)
    IN  /\ c * tw > CloseSum(t, tw)
        /\ 100 * (HighOver20(t) - c) >= params.pullback_threshold * HighOver20(t)
        /\ 100 * Abs(c * sw - CloseSum(t, sw)) < 3 * CloseSum(t, sw)
        /\ l > 0 /\ 100 * g < params.rsi_oversold * (g + l)
        /\ c > Val(data[t - 1].Close)

\* C16: PullbackBuyStrategy emits EnterLong on a bar only if on that bar it
\* is flat and Close is above the trend average, the retracement from the
\* recent high meets the threshold, Close is within the 3% band of the
\* support average, RSI is below the oversold level and Close is above the
\* previous Close.
C16_EntryNeedsAllConditions ==
    (IsPullback /\ InGen /\ (signal[k] = 1 \/ position_col[k] = 1)) =>
        /\ gpre.position = 0
        /\ position = 1
        /\ AllEntryConditions(k)

\* C16 witness: a flat bar that meets the five conditions, the retracement
\* exactly at the threshold, emits an entry
C16_Witness ==
    /\ IsPullback /\ InGen /\ ~PullbackUndefined(k)
    /\ gpre.position = 0
    /\ signal[k] = 1 /\ position_col[k] = 1
    /\ AllEntryConditions(k)
    /\ 100 * (HighOver20(k) - Val(data[k].Close))
          = params.pullback_threshold * HighOver20(k)

\* C17: whenever PullbackBuyStrategy's position is long its entry_price is the
\* positive Close of the entry bar, and whenever it is flat its entry_price,
\* stop_loss_price and take_profit_price are all 0.
C17_EntryPriceTracksPosition ==
    (IsPullback /\ gpc \in {"loop", "done"}) =>
        /\ position \in {0, 1}
        /\ position = 1 =>
              /\ LastEntryBar >= 1
              /\ entry_price = Val(data[LastEntryBar].Close)
              /\ entry_price > 0
        /\ position = 0 =>
              /\ entry_price = 0
              /\ stop_loss_price = 0
              /\ take_profit_price = 0

\* C17 witness: flat again after a round trip that had recorded an entry price
C17_Witness ==
    /\ IsPullback /\ InGen
    /\ gpre.position = 1 /\ gpre.entry_price = 133
    /\ position = 0 /\ signal[k] = -1
    /\ entry_price = 0

(***************************************************************************)
(* Properties of ChuChiaHungStrategy.generate_signals.                     *)
(***************************************************************************)
IsChu == strategy = "chu"

Defined(x) == ~isna(x)

\* the entry conditions of bar t, each computed from the bars
ChuAllEntryConditions(t) ==
    LET ma20 == CloseSum(t, 20)
        ma60 == CloseSum(t, 60)
        prev60 == CloseSum(t - 1, 60)
        vol5 == SumRange(Col(data, "Volume"), t - 4, t)
    IN  /\ 60 * ma20 > 20 * ma60
        /\ ma60 > prev60
        /\ 100 * 20 * Val(data[t].Low) <= 103 * ma20
        /\ 20 * Val(data[t].Close) > ma20
        /\ 5 * Val(data[t].Volume) > vol5
        /\ Val(data[t].Close) > Val(data[t].Open)

\* an entry is emitted only when flat on a bar that meets the six conditions,
\* an exit only when long, and a bar that enters stays long
C18_EntryRule ==
    (IsChu /\ BarTaken) =>
        /\ \A j \in 1..ChuFirst : j <= Len(data) => signal[j] = 0
        /\ signal[k] = 1 =>
              /\ gpre.position = 0 /\ position = 1
              /\ ChuAllEntryConditions(k)
        /\ signal[k] = -1 => (gpre.position = 1 /\ position = 0)
        /\ signal[k] = 0 => position = gpre.position

\* Close of bar k is strictly below its defined MA20
ClosedBelowMA20 ==
    /\ Defined(data[k].Close) /\ Defined(MA20(data, k))
    /\ 20 * Val(data[k].Close) < Val(MA20(data, k))

\* C18 (as amended): ChuChiaHungStrategy enters only when flat on a bar where
\* MA20 > MA60, MA60 is above the previous bar's MA60, Low <= 1.03 * MA20,
\* Close > MA20, Volume > 5-bar volume average and Close > Open; once long it
\* exits on the first later bar with MA20 and MA60 both defined whose Close
\* is strictly below MA20 (a bar with MA60 undefined is passed over); an
\* entry and an exit never fall on the same bar.
C18_ExitOnDefinedBarBelowMA20 ==
    /\ C18_EntryRule
    /\ (IsChu /\ BarTaken /\ gpre.position = 1) =>
          /\ (Defined(MA20(data, k)) /\ Defined(MA60(data, k))) =>
                (position = 0 <=> ClosedBelowMA20)
          /\ (isna(MA20(data, k)) \/ isna(MA60(data, k))) =>
                (position = 1 /\ signal[k] = 0)

\* C18 witness: long, a bar closes below its MA20 while MA60 is undefined and
\* the position stays long
C18_Witness ==
    /\ IsChu /\ BarTaken
    /\ gpre.position = 1 /\ position = 1
    /\ ClosedBelowMA20
    /\ isna(MA60(data, k))

\* C18 as stated: once long, the first later bar whose Close is strictly
\* below MA20 exits
C18_ExitOnFirstBarBelowMA20 ==
    /\ C18_EntryRule
    /\ (IsChu /\ BarTaken /\ gpre.position = 1) =>
          (position = 0 <=> ClosedBelowMA20)

(***************************************************************************)
(* Further properties of run_backtest.                                     *)
(***************************************************************************)
\* C19: on a bar whose price is undefined run_backtest executes no trade and
\* the valuation it appends equals the previous bar's valuation (the initial
\* cash when there is no previous bar), whether the portfolio never traded,
\* is flat after a round trip or is long.
C19_UndefinedPriceHoldsValuation ==
    (InRun /\ isna(row.Close)) =>
        /\ NoTradeThisBar
        /\ Len(portfolio_value) = i
        /\ i = 1 => portfolio_value[i] = Num(initial_capital * Scale)
        /\ i >= 2 => portfolio_value[i] = portfolio_value[i - 1]

\* the same, for a portfolio that never traded
C19_NeverTraded ==
    (InRun /\ isna(row.Close) /\ isna(positions)) =>
        /\ NoTradeThisBar
        /\ Len(portfolio_value) = i
        /\ i = 1 => portfolio_value[i] = Num(initial_capital * Scale)
        /\ i >= 2 => portfolio_value[i] = portfolio_value[i - 1]

\* the row carries a position_size that is a finite number
FiniteSize == row.has_position_size /\ ~isna(row.position_size)
                                    /\ row.position_size # PosInf

\* the row carries no position_size, or an undefined one
NoSize == ~row.has_position_size \/ isna(row.position_size)

\* the share count the sizing rule gives the row: the position_size (held in
\* units of 1/SizeDen) truncated toward 0, else floor(0.1 * capital / price)
SizedShares ==
    IF FiniteSize
    THEN (IF Val(row.position_size) >= 0
          THEN Val(row.position_size) \div SizeDen
          ELSE -((-Val(row.position_size)) \div SizeDen))
    ELSE engine_capital \div (10 * Val(row.Close))

UntradedValuation == pre.capital + PreHoldings * Val(row.Close) * Scale

\* the cash before the trade before the last one
CashBeforeRoundTrip ==
    IF Len(trades) = 2 THEN initial_capital * Scale
    ELSE trades[Len(trades) - 2].capital_after

\* the last two trades are an entry and its exit at the same price
RoundTripAtUnchangedPrice ==
    /\ InRun
    /\ Len(trades) >= 2
    /\ Len(trades) = pre.ntrades + 1
    /\ LastTrade.quantity < 0
    /\ trades[Len(trades) - 1].quantity > 0
    /\ trades[Len(trades) - 1].price = LastTrade.price

\* C21: commission is charged once per executed trade.  An executed entry of
\* s shares at price p lowers the bar's valuation by exactly s*p*c relative to
\* not trading at that price, an executed exit of q shares lowers it by
\* exactly q*p*c, and after a round trip at an unchanged price the portfolio
\* is worth the cash before the entry less the two commissions, so never more
\* than before.
C21_CommissionOncePerTrade ==
    (InRun /\ Len(trades) = pre.ntrades + 1) =>
        /\ ~isna(row.Close)
        /\ LastTrade.price = Val(row.Close)
        /\ LastTrade.quantity > 0 =>
              portfolio_value[i] =
                  Num(UntradedValuation
                      - LastTrade.quantity * LastTrade.price * commission)
        /\ LastTrade.quantity < 0 =>
              /\ -LastTrade.quantity = pre.current_position
              /\ portfolio_value[i] =
                  Num(UntradedValuation
                      - pre.current_position * LastTrade.price * commission)
        /\ RoundTripAtUnchangedPrice =>
              /\ portfolio_value[i] =
                  Num(CashBeforeRoundTrip
                      - 2 * pre.current_position * LastTrade.price * commission)
              /\ Val(portfolio_value[i]) <= CashBeforeRoundTrip

\* C21 witness: with a commission of 0.001, 833 shares bought and sold at 60;
\* the two commissions are 99.96
C21_Witness ==
    /\ RoundTripAtUnchangedPrice
    /\ commission = 1
    /\ Len(trades) = 2
    /\ LastTrade.price = 60
    /\ pre.current_position = 833
    /\ Val(portfolio_value[i]) = CashBeforeRoundTrip - 99960

\* every timestamp is later than the one before it
StrictlyIncreasing(ix) == \A j \in 1..(Len(ix) - 1) : ix[j] < ix[j + 1]

\* C22: run_backtest on a price series whose timestamps are not strictly
\* increasing (out of order or duplicated) fails fast: it does not complete,
\* and it produces no trade and no valuation.
C22_NonMonotonicFailsFast ==
    (pc \in {"loop", "done", "raised"} /\ ~StrictlyIncreasing(index)) =>
        /\ pc # "done"
        /\ trades = << >>
        /\ portfolio_value = << >>

(***************************************************************************)
(* Properties of get_performance_metrics.                                  *)
(***************************************************************************)
Reported == pc = "reported"

\* the history is not empty and every valuation is defined (and positive)
AllPositive(pv) ==
    /\ pv # << >>
    /\ \A t \in 1..Len(pv) : ~isna(pv[t]) /\ Val(pv[t]) > 0

RunningPeak(pv, t) == SetMax({ Val(pv[j]) : j \in 1..t })

\* (runningPeak(t) - value(t)) / runningPeak(t)
DrawdownAt(pv, t) ==
    Frac(RunningPeak(pv, t) - Val(pv[t]), RunningPeak(pv, t))

\* C28: get_performance_metrics computes max_drawdown as the maximum over t
\* of (runningPeak(t) - value(t)) / runningPeak(t), runningPeak(t) being the
\* maximum of the valuations up to and including t; for the valuation series
\* 100, 120, 90, 110 the result is 0.25.
C28_MaxDrawdown ==
    (Reported /\ AllPositive(portfolio_value)) =>
        /\ \E t \in 1..Len(portfolio_value) :
              performance.max_drawdown = DrawdownAt(portfolio_value, t)
        /\ \A t \in 1..Len(portfolio_value) :
              ~FracLess(performance.max_drawdown, DrawdownAt(portfolio_value, t))
        /\ portfolio_value = << Num(100), Num(120), Num(90), Num(110) >> =>
              performance.max_drawdown = << 1, 4 >>

\* C28 witness: the series 100, 120, 90, 110 has been measured
C28_Witness ==
    /\ Reported
    /\ portfolio_value = << Num(100), Num(120), Num(90), Num(110) >>
    /\ performance.max_drawdown = << 1, 4 >>

\* every valuation of the history is the same defined value
ConstantSeries(pv) ==
    /\ pv # << >>
    /\ ~isna(pv[1])
    /\ \A t \in 1..Len(pv) : pv[t] = pv[1]

\* C29: for a constant valuation series get_performance_metrics reports
\* volatility 0 and sharpe_ratio 0 (no division error); more generally
\* sharpe_ratio is 0 whenever volatility is not greater than 0.
C29_ConstantSeriesZeroVolatility ==
    Reported =>
        /\ ConstantSeries(portfolio_value) =>
              /\ performance.volatility = ZeroVolatility
              /\ performance.sharpe_ratio = ZeroSharpe
        /\ (portfolio_value # << >> /\ performance.volatility.kind # "std") =>
              performance.sharpe_ratio = ZeroSharpe

\* the part of C29 about sharpe_ratio alone
C29_SharpeZeroWithoutVolatility ==
    (Reported /\ portfolio_value # << >> /\ performance.volatility.kind # "std") =>
        performance.sharpe_ratio = ZeroSharpe

\* C30: when the valuation history is empty (a run over zero bars),
\* get_performance_metrics returns an empty report and run_backtest returns
\* that empty performance with empty trades and portfolio_value, adding no
\* final_capital or total_return_pct field.
C30_EmptyRunEmptyReport ==
    (pc = "done" /\ nbars = 0) =>
        /\ portfolio_value = << >>
        /\ trades = << >>
        /\ performance.keys = {}
        /\ performance = EmptyReport
        /\ results[name] = performance

\* C30 witness: a run over zero bars has returned; a run over bars returns a
\* report with the two fields, so the report of the empty run differs
C30_Witness ==
    /\ pc = "done"
    /\ nbars = 0
    /\ i = 0
    /\ "final_capital" \notin performance.keys
    /\ DOMAIN results = {name}

\* the name of the strategy object run by entry a of the call history
NameAt(a) == BatchObjects[history[a].object].name

\* the place in the call history of the pair (symbol a, strategy b)
PairAt(a, b) == (a - 1) * Len(strategies) + b

\* C23: run_multiple_backtests returns one entry for every symbol and, under
\* it, one entry for every strategy name; every pair was run, in the iteration
\* order, whether or not a pair before it raised; the entry of a name is what
\* the last pair of that name under the symbol left: an empty result
\* (performance {}, no trades, empty portfolio_value) if its run raised, the
\* dict run_backtest returned otherwise.
C23_BatchRecordsEveryPair ==
    bpc = "returned" =>
        /\ DOMAIN all_results = { data_dict[a].symbol : a \in 1..Len(data_dict) }
        /\ Len(history) = Len(data_dict) * Len(strategies)
        /\ \A a \in 1..Len(data_dict) :
              /\ DOMAIN all_results[data_dict[a].symbol]
                    = { BatchObjects[strategies[b]].name : b \in 1..Len(strategies) }
              /\ \A b \in 1..Len(strategies) :
                    /\ history[PairAt(a, b)].object = strategies[b]
                    /\ history[PairAt(a, b)].symbol = data_dict[a].symbol
                    /\ history[PairAt(a, b)].data = data_dict[a].data
                    /\ (\A b2 \in (b + 1)..Len(strategies) :
                            NameAt(PairAt(a, b2)) # NameAt(PairAt(a, b)))
                       => LET e == all_results[data_dict[a].symbol][NameAt(PairAt(a, b))]
                          IN  IF history[PairAt(a, b)].raised
                              THEN /\ e.performance.keys = {}
                                   /\ e.trades = << >>
                                   /\ e.portfolio_value = << >>
                                   /\ e.signals_data = << >>
                              ELSE /\ e = history[PairAt(a, b)].result
                                   /\ Len(e.portfolio_value) = Len(data_dict[a].data)
                                   /\ Len(e.signals_data) = Len(data_dict[a].data)

\* C23 witness: the batch has returned, a pair raised and the pair after it
\* ran to its end and is recorded with its valuations
C23_Witness ==
    /\ bpc = "returned"
    /\ \E a \in 1..(Len(history) - 1) :
          /\ history[a].raised
          /\ ~history[a + 1].raised
          /\ history[a + 1].result.portfolio_value # << >>
          /\ all_results[history[a].symbol][NameAt(a)].performance.keys = {}

\* the entries of the call history whose run completed
Completed == { a \in 1..Len(history) : ~history[a].raised }

\* the last entry of the call history, among those of S, with the name of a
IsLastOfName(a, S) == \A b \in S : b > a => NameAt(b) # NameAt(a)

\* C24 as stated: between two run_backtest calls, engine.results holds exactly
\* one entry per distinct strategy name the engine was called with, the
\* performance report of the most recent completed run of that name.
C24_OneEntryPerNameRun ==
    bpc \in {"symbol", "strategy", "returned"} =>
        /\ DOMAIN results = { NameAt(a) : a \in 1..Len(history) }
        /\ \A a \in Completed :
              IsLastOfName(a, Completed) => results[NameAt(a)] = history[a].result.performance

\* C24 amended: between two run_backtest calls, engine.results holds exactly
\* one entry per distinct strategy name of which a run completed, and that entry
\* is the performance report of the most recent completed run of that name;
\* a run that raised neither adds an entry nor changes one.
C24_OneEntryPerNameCompleted ==
    bpc \in {"symbol", "strategy", "returned"} =>
        /\ DOMAIN results = { NameAt(a) : a \in Completed }
        /\ \A a \in Completed :
              IsLastOfName(a, Completed) => results[NameAt(a)] = history[a].result.performance

\* C24 witness: two runs of one name completed with different reports, the
\* entry is the later report, and a run of the batch raised
C24_Witness ==
    /\ bpc = "returned"
    /\ \E a, b \in Completed :
          /\ a < b
          /\ NameAt(a) = NameAt(b)
          /\ IsLastOfName(b, Completed)
          /\ history[a].result.performance # history[b].result.performance
          /\ results[NameAt(b)] = history[b].result.performance
    /\ \E c \in 1..Len(history) : history[c].raised

\* the dict run_backtest returned, its trade records under the symbol s
Relabel(res, s) ==
    [res EXCEPT !.trades = [j \in 1..Len(res.trades) |-> [res.trades[j] EXCEPT !.symbol = s]]]

\* C26: run_backtest resets cash to the strategy's initial capital and empties
\* holdings, trade log and valuation history before its loop, whatever earlier
\* runs left on the strategy object; a run on an object already used has the
\* outcome (the returned dict, or the exception) of the run of the same
\* strategy on the same data that found the object fresh.
C26_ResetMakesRunsIndependent ==
    /\ (pc = "loop" /\ i = 0) =>
          /\ capital = initial_capital * Scale
          /\ positions = NaN
          /\ trades = << >>
          /\ portfolio_value = << >>
          /\ current_position = 0
    /\ \A a, b \in 1..Len(history) :
          (/\ history[a].fresh
           /\ history[b].object = history[a].object
           /\ history[b].data = history[a].data)
          => /\ history[b].raised = history[a].raised
             /\ Relabel(history[b].result, history[a].symbol) = history[a].result

\* C26 witness: a strategy object that traded in its first run was run again
\* on the same data under another symbol and traded again
C26_Witness ==
    \E a, b \in 1..Len(history) :
        /\ a < b
        /\ history[a].fresh
        /\ ~history[b].fresh
        /\ history[b].object = history[a].object
        /\ history[b].data = history[a].data
        /\ history[b].symbol # history[a].symbol
        /\ history[a].result.trades # << >>
        /\ history[b].result.trades # << >>
        /\ history[b].result.performance.keys # {}

\* the rolling mean of losses at bar t is defined and zero
LossMeanZero(t) ==
    /\ ~isna(RsiLoss(data, t, params.rsi_window))
    /\ Val(RsiLoss(data, t, params.rsi_window)) = 0

\* C31: calculate_rsi is 100 on every bar whose rolling mean of losses over
\* the window is zero, the bars of a window in which the close never changed
\* (rolling mean of gains zero as well) included.
C31_RsiHundredWhenLossZero ==
    (InGen /\ IsPullback /\ k >= 1 /\ LossMeanZero(k))
        => calculate_rsi(data, k, params.rsi_window) = Num(<< 100, 1 >>)

\* the same for the bars whose window holds a gain
RsiHundredWhenGainOnly ==
    (/\ InGen /\ IsPullback /\ k >= 1 /\ LossMeanZero(k)
     /\ Val(RsiGain(data, k, params.rsi_window)) > 0)
        => calculate_rsi(data, k, params.rsi_window) = Num(<< 100, 1 >>)

\* a bar whose window holds a gain and no loss is reached
GainOnlyReached ==
    /\ InGen /\ IsPullback /\ k >= 1 /\ LossMeanZero(k)
    /\ Val(RsiGain(data, k, params.rsi_window)) > 0

RECURSIVE InBarOrder(_, _)
InBarOrder(a, b) ==
    IF a > Len(trades) THEN TRUE
    ELSE IF b > i THEN FALSE
    ELSE IF trades[a].timestamp = index[b] THEN InBarOrder(a + 1, b + 1)
    ELSE InBarOrder(a, b + 1)

Buys == { j \in 1..Len(trades) : trades[j].quantity > 0 }

Sells == { j \in 1..Len(trades) : trades[j].quantity < 0 }

\* C33: in the trade log of a run the records alternate buy, sell, buy, ...
\* starting with a buy; a bar adds at most one record, stamped with the bar's
\* timestamp, so the records are in the order of the input bars; the number
\* of buys less the number of sells is 1 when the engine is long and 0 when
\* it is flat.
C33_TradesAlternate ==
    InRun =>
        /\ \A j \in 1..Len(trades) :
              IF j % 2 = 1 THEN trades[j].quantity > 0 ELSE trades[j].quantity < 0
        /\ Len(trades) \in {pre.ntrades, pre.ntrades + 1}
        /\ Len(trades) = pre.ntrades + 1 => LastTrade.timestamp = index[i]
        /\ Len(trades) <= i
        /\ InBarOrder(1, 1)
        /\ (index = Chronological(nbars)) =>
              \A j \in 1..(Len(trades) - 1) : trades[j].timestamp < trades[j + 1].timestamp
        /\ current_position >= 0
        /\ Cardinality(Buys) - Cardinality(Sells) = (IF current_position > 0 THEN 1 ELSE 0)

\* C33 witness: a buy, a sell and a second buy on three bars, the engine long
C33_Witness ==
    /\ InRun
    /\ Len(trades) = 3
    /\ trades[1].quantity > 0
    /\ trades[2].quantity < 0
    /\ trades[3].quantity > 0
    /\ current_position > 0
    /\ i = 3

\* C34: with a non-negative initial capital, non-negative prices and a
\* commission rate between 0 and 1, the cash of the strategy is never
\* negative in a state of run_backtest.
C34_CashNeverNegative ==
    (initial_capital >= 0 /\ commission \in 0..Scale) => capital >= 0

\* C34 witness: with a commission of 100%, 10 shares bought at 50 took the
\* whole cash of 1000 and were sold for no revenue: the cash is 0
C34_Witness ==
    /\ pc = "loop"
    /\ commission = Scale
    /\ initial_capital = 1000
    /\ Len(trades) = 2
    /\ trades[1].price = 50
    /\ trades[1].capital_after = 0
    /\ capital = 0

\* the sum of the signed quantities of the first n trade records
RECURSIVE QuantitySum(_)
QuantitySum(n) == IF n = 0 THEN 0 ELSE QuantitySum(n - 1) + trades[n].quantity

\* C35: at the end of every bar the local current_position equals
\* strategy.positions[symbol] (0 if the key is absent) and the sum of the
\* signed quantities of the trades recorded so far; the quantity of every
\* sell record is the negation of that of the buy record before it.
C35_PositionMatchesTrades ==
    InRun =>
        /\ current_position = Holdings
        /\ current_position = QuantitySum(Len(trades))
        /\ \A j \in 1..Len(trades) :
              trades[j].quantity < 0 =>
                  /\ j > 1
                  /\ trades[j - 1].quantity > 0
                  /\ trades[j].quantity = -trades[j - 1].quantity

\* C35 witness: 200 shares bought and sold, then a second entry of another
\* size is held
C35_Witness ==
    /\ InRun
    /\ Len(trades) = 3
    /\ trades[2].quantity = -trades[1].quantity
    /\ trades[3].quantity # trades[1].quantity
    /\ current_position = trades[3].quantity
    /\ positions = Num(trades[3].quantity)

IsLoopStrategy == strategy \in {"turtle", "pullback", "chu"}

\* the strategy's position after bar t, as its signals up to t leave it
RECURSIVE PositionAfter(_)
PositionAfter(t) ==
    IF t = 0 THEN 0
    ELSE IF signal[t] = 1 THEN 1
    ELSE IF signal[t] = -1 THEN 0
    ELSE PositionAfter(t - 1)

\* the engine recorded a trade on bar t (the index of a generated frame is
\* the bar number)
TradedAt(t) == \E j \in 1..Len(trades) : trades[j].timestamp = t

\* the shares the engine held before bar t
RECURSIVE HeldBefore(_, _)
HeldBefore(t, n) ==
    IF n = 0 THEN 0
    ELSE HeldBefore(t, n - 1) + (IF trades[n].timestamp < t THEN trades[n].quantity ELSE 0)

\* the strategy entered on bar e and the engine, flat, traded nothing
Vetoed(e) == signal[e] = 1 /\ HeldBefore(e, Len(trades)) = 0 /\ ~TradedAt(e)

\* no exit signal on the bars a..b
NoExitOn(a, b) == \A t \in a..b : signal[t] # -1

\* after a vetoed entry, up to and on the bar of the strategy's next exit,
\* the strategy emits no entry and the engine trades nothing
VetoedSpanStaysFlat ==
    (IsLoopStrategy /\ InRun) =>
        \A e \in 1..i :
            Vetoed(e) =>
                \A t \in (e + 1)..i :
                    NoExitOn(e + 1, t - 1) => (signal[t] # 1 /\ ~TradedAt(t))

\* a vetoed entry whose exit signal the engine has passed
VetoedSpanReached ==
    /\ IsLoopStrategy /\ InRun
    /\ \E e \in 1..(i - 1) : Vetoed(e) /\ signal[i] = -1 /\ NoExitOn(e + 1, i - 1)
    /\ current_position = 0

\* C36: when run_backtest replays the frame of a loop-based strategy, the
\* strategy's position after bar t is long whenever the engine holds shares
\* after bar t; and after an entry the engine vetoes the strategy emits no
\* entry until its exit, the engine stays flat and the exit trades nothing.
C36_EngineLongOnlyWhenStrategyLong ==
    (IsLoopStrategy /\ InRun) =>
        /\ current_position > 0 => PositionAfter(i) = 1
        /\ \A e \in 1..i :
              Vetoed(e) =>
                  \A t \in (e + 1)..i :
                      NoExitOn(e + 1, t - 1)
                          => (signal[t] # 1 /\ ~TradedAt(t) /\ (t = i => current_position = 0))

\* C37: in the signal series of TurtleStrategy, PullbackBuyStrategy and
\* ChuChiaHungStrategy the non-zero signals alternate +1, -1, +1, ... from a
\* +1 (a +1 comes with the position flat before it, a -1 with it long), a bar
\* carries one value, the position column is the signal, and the position
\* the loop holds is 0 or 1, the one the signals so far leave.
C37_SignalsAlternate ==
    (IsLoopStrategy /\ InGen) =>
        /\ position \in {0, 1}
        /\ position = PositionAfter(k)
        /\ position_col = signal
        /\ \A t \in 1..Len(signal) :
              /\ signal[t] \in {-1, 0, 1}
              /\ t > k => signal[t] = 0
              /\ signal[t] = 1 => PositionAfter(t - 1) = 0
              /\ signal[t] = -1 => PositionAfter(t - 1) = 1

\* C37 witness: an entry, an exit and a second entry have been emitted
C37_Witness ==
    /\ IsLoopStrategy /\ InGen
    /\ position = 1
    /\ \E a, b, c \in 1..k :
          a < b /\ b < c /\ signal[a] = 1 /\ signal[b] = -1 /\ signal[c] = 1

\* the strategy objects other than the one run_backtest works on, whose
\* attribute f is bound to the object r
HoldersOf(r, f) == { o \in DOMAIN objects \ {cur} : objects[o][f] = r }

\* what the trades list a call returned holds now: the list is changed only
\* through the attribute of a strategy object bound to it
TradesNow(h) ==
    IF refs.trades = h.refs.trades THEN trades
    ELSE IF HoldersOf(h.refs.trades, "trades_ref") # {}
         THEN objects[CHOOSE o \in HoldersOf(h.refs.trades, "trades_ref") : TRUE].trades
         ELSE h.result.trades

\* what the portfolio_value list a call returned holds now
ValuationsNow(h) ==
    IF refs.portfolio_value = h.refs.portfolio_value THEN portfolio_value
    ELSE IF HoldersOf(h.refs.portfolio_value, "portfolio_value_ref") # {}
         THEN objects[CHOOSE o \in HoldersOf(h.refs.portfolio_value,
                                             "portfolio_value_ref") : TRUE].portfolio_value
         ELSE h.result.portfolio_value

\* what the report a call returned holds now: run_backtest writes only into
\* the dict get_performance_metrics has just made
ReportNow(h) ==
    IF refs.performance = h.refs.performance THEN performance
    ELSE h.result.performance

\* C38: the trades list, the portfolio_value list and the performance report
\* a run_backtest call returned hold, whatever calls were made after it on
\* the same strategy object or the same engine, what they held at the return.
C38_ReturnedResultsKept ==
    \A a \in Completed :
        /\ TradesNow(history[a]) = history[a].result.trades
        /\ ValuationsNow(history[a]) = history[a].result.portfolio_value
        /\ ReportNow(history[a]) = history[a].result.performance

\* C38 witness: a strategy object whose earlier call returned trades is in
\* the loop of a later call, its trades attribute bound to another list with
\* other contents, and another report has been made since
C38_Witness ==
    /\ bpc = "running"
    /\ pc = "loop"
    /\ i >= 2
    /\ \E a \in Completed :
          /\ history[a].object = cur
          /\ history[a].result.trades # << >>
          /\ trades # history[a].result.trades
          /\ refs.trades # history[a].refs.trades
          /\ refs.performance # history[a].refs.performance
          /\ performance # history[a].result.performance

=============================================================================
